---- MODULE Spec2Model ----
(***************************************************************************)
(* Model of the vstrike-bot payment core: the users/transactions ledger    *)
(* of database.py, the input validation of validator.py, the OxaPay        *)
(* signature check of webhook_validator.py, the payment gateway client of  *)
(* payments.py and the notification bridge of bridge.py.                   *)
(*                                                                         *)
(* Strings the code inspects character by character (order ids, amounts,   *)
(* metadata) are sequences of one-character strings.  Amounts are integers *)
(* in thousandths of a currency unit.  Timestamps are the values of a      *)
(* logical clock that advances at every call.                              *)
(***************************************************************************)
EXTENDS Integers, Sequences, FiniteSets, TLC

VARIABLES
    threads,           \* the workers that serve requests
    schema_updated_at, \* does the transactions table have an updated_at column
    users,             \* table users: telegram_id -> row
    transactions,      \* table transactions: tx_id -> row
    wk,                \* per worker: position and locals of the call it runs
    clock,             \* datetime.now(), one tick per call started
    faults,            \* storage errors raised so far
    sync_queue,        \* bridge._sync_queue
    gw,                \* payments.py: configuration and the call the client runs
    bridge,            \* bridge.py: the producers' calls and the consumer task
    pool,              \* database._connection_pool and the connections in use
    fn                 \* a call of a validator or sanitizer: argument and result

vars == <<threads, schema_updated_at, users, transactions, wk, clock, faults, sync_queue,
          gw, bridge, pool, fn>>

----------------------------------------------------------------------------
(* Bounds *)

\* calls started in a run of a single-threaded server
MaxCalls == 4

\* calls started in a run of a server with two threads
MaxConcurrentCalls == 3

MaxFaults == 1

Workers == {"w1", "w2"}

----------------------------------------------------------------------------
(* Program constants *)

MinOrderIdLen == 3

MaxOrderIdLen == 64

\* 9999999999, the largest Telegram id accepted, has this many decimal digits
MaxTelegramIdDigits == 10

\* 10000 currency units, in thousandths
MaxAmountMills == 10000000

MaxMetadataLen == 1000

----------------------------------------------------------------------------
(* Characters *)

Digits == {"0", "1", "2", "3", "4", "5", "6", "7", "8", "9"}

DigitVal(c) ==
    CASE c = "0" -> 0 [] c = "1" -> 1 [] c = "2" -> 2 [] c = "3" -> 3
      [] c = "4" -> 4 [] c = "5" -> 5 [] c = "6" -> 6 [] c = "7" -> 7
      [] c = "8" -> 8 [] c = "9" -> 9

\* [a-zA-Z0-9_-] restricted to the letters the inputs use
OrderIdChars == {"a", "b", "c", "o", "r", "d", "_", "-"} \cup Digits

\* a letter outside ASCII: matched by \w, not by [a-zA-Z0-9_]
NonAsciiWordChars == {"e-acute"}

\* \w of a Python 3 str pattern, and the dash: what re.sub(r'[^\w\-]', '') keeps
WordOrDashChars == OrderIdChars \cup NonAsciiWordChars

Whitespace == {" "}

\* the characters sanitize_string removes
DangerousChars == {"<", ">", "\"", "'", ";"}

RECURSIVE LStrip(_)
LStrip(s) == IF s # <<>> /\ Head(s) \in Whitespace THEN LStrip(Tail(s)) ELSE s

RECURSIVE RStrip(_)
RStrip(s) ==
    IF s # <<>> /\ s[Len(s)] \in Whitespace THEN RStrip(SubSeq(s, 1, Len(s) - 1)) ELSE s

\* str.strip()
Strip(s) == RStrip(LStrip(s))

\* re.sub of every character outside keep by ''
Keep(s, keep) == SelectSeq(s, LAMBDA c : c \in keep)

CountChar(s, ch) == Len(SelectSeq(s, LAMBDA c : c = ch))

RECURSIVE DigitsToNat(_)
DigitsToNat(s) ==
    IF s = <<>> THEN 0 ELSE 10 * DigitsToNat(SubSeq(s, 1, Len(s) - 1)) + DigitVal(s[Len(s)])

\* position of the first "." of s, Len(s) + 1 when there is none
RECURSIVE DotPos(_)
DotPos(s) == IF s = <<>> \/ Head(s) = "." THEN 1 ELSE 1 + DotPos(Tail(s))

\* float() of a string of digits with at most one ".", in thousandths
\* (fraction digits after the third are not represented: inputs have at most 3)
FloatMills(s) ==
    LET p == DotPos(s)
        ip == SubSeq(s, 1, p - 1)
        fp == SubSeq(s, p + 1, Len(s))
        f3 == SubSeq(fp \o <<"0", "0", "0">>, 1, 3)
    IN DigitsToNat(ip) * 1000 + DigitsToNat(f3)

\* round(amount, 2) on thousandths; an exact tie rounds to even
Round2(m) ==
    LET r == m % 10
        lo == m - r
    IN IF r < 5 THEN lo
       ELSE IF r > 5 THEN lo + 10
       ELSE IF (lo \div 10) % 2 = 0 THEN lo ELSE lo + 10

----------------------------------------------------------------------------
(* validator.py *)

Invalid == [is_valid |-> FALSE, sanitized_value |-> <<>>]

Valid(v) == [is_valid |-> TRUE, sanitized_value |-> v]

\* mutant: the length test is off by one and refuses a 3-character id
validate_order_id_OffByOne(order_id) ==
    IF order_id = <<>> THEN Invalid
    ELSE LET cleaned_id == Keep(Strip(order_id), WordOrDashChars)
         IN IF Len(cleaned_id) <= MinOrderIdLen \/ Len(cleaned_id) > MaxOrderIdLen THEN Invalid
            ELSE IF \E i \in 1..Len(cleaned_id) : cleaned_id[i] \notin OrderIdChars THEN Invalid
            ELSE Valid(cleaned_id)

validate_order_id(order_id) ==
    IF order_id = <<>> THEN Invalid
    ELSE LET cleaned_id == Keep(Strip(order_id), WordOrDashChars)
         IN IF Len(cleaned_id) < MinOrderIdLen \/ Len(cleaned_id) > MaxOrderIdLen THEN Invalid
            ELSE IF \E i \in 1..Len(cleaned_id) : cleaned_id[i] \notin OrderIdChars THEN Invalid
            ELSE Valid(cleaned_id)

RECURSIVE NumDigits(_)
NumDigits(n) == IF n < 10 THEN 1 ELSE 1 + NumDigits(n \div 10)

\* the int branch: callers pass the Telegram id as an int;
\* telegram_id > 9999999999 exactly when it has more than 10 digits
validate_telegram_id(telegram_id) ==
    IF telegram_id <= 0 THEN Invalid
    ELSE IF NumDigits(telegram_id) > MaxTelegramIdDigits THEN Invalid
    ELSE Valid(telegram_id)

\* the range checks and the rounding of validate_amount, on a float in thousandths
AmountRange(mills) ==
    IF mills <= 0 THEN Invalid
    ELSE IF mills > MaxAmountMills THEN Invalid
    ELSE Valid(Round2(mills))

\* an amount is [kind |-> "num", mills |-> n] or [kind |-> "str", chars |-> s]
validate_amount(amount) ==
    IF amount.kind = "str"
    THEN LET cleaned_amount == Keep(Strip(amount.chars), Digits \cup {"."})
         IN IF cleaned_amount = <<>> \/ CountChar(cleaned_amount, ".") > 1 THEN Invalid
            ELSE IF cleaned_amount = <<".">> THEN Invalid   \* float(".") raises ValueError
            ELSE AmountRange(FloatMills(cleaned_amount))
    ELSE AmountRange(amount.mills)

valid_methods == <<"OxaPay", "Cryptomus", "NOWPayments", "Stars">>

\* str.strip().lower() of the method spellings the inputs use
LowerMethod(m) ==
    CASE m \in {"OxaPay", "oxapay", " oxapay "} -> "oxapay"
      [] m \in {"Cryptomus", "cryptomus"} -> "cryptomus"
      [] m \in {"NOWPayments", "nowpayments"} -> "nowpayments"
      [] m \in {"Stars", "stars"} -> "stars"
      [] m \in {"Stripe", "stripe"} -> "stripe"
      [] m \in {"Transak", "transak"} -> "transak"
      [] OTHER -> m

validate_payment_method(method) ==
    IF method = "" THEN Invalid
    ELSE LET hits == {i \in 1..Len(valid_methods) :
                         LowerMethod(valid_methods[i]) = LowerMethod(method)}
         IN IF hits = {} THEN Invalid
            ELSE Valid(valid_methods[CHOOSE i \in hits : \A j \in hits : i <= j])

sanitize_string(text, max_length) ==
    IF text = <<>> THEN <<>>
    ELSE LET cleaned == SelectSeq(Strip(text), LAMBDA c : c \notin DangerousChars)
         IN IF Len(cleaned) > max_length THEN SubSeq(cleaned, 1, max_length) ELSE cleaned

\* the str branch
sanitize_transaction_metadata(metadata) == sanitize_string(metadata, MaxMetadataLen)

NoData == [ok |-> FALSE, tx_id |-> <<>>, user_id |-> 0, amount |-> 0,
           method |-> "", metadata |-> <<>>]

validate_transaction_input(tx_id, user_id, amount, method, metadata) ==
    LET tx_validation == validate_order_id(tx_id)
        user_validation == validate_telegram_id(user_id)
        amount_validation == validate_amount(amount)
        method_validation == validate_payment_method(method)
    IN IF tx_id = <<>> THEN NoData
       ELSE IF ~tx_validation.is_valid THEN NoData
       ELSE IF ~user_validation.is_valid THEN NoData
       ELSE IF ~amount_validation.is_valid THEN NoData
       ELSE IF method = "" THEN NoData
       ELSE IF ~method_validation.is_valid THEN NoData
       ELSE [ok |-> TRUE,
             tx_id |-> tx_validation.sanitized_value,
             user_id |-> user_validation.sanitized_value,
             amount |-> amount_validation.sanitized_value,
             method |-> method_validation.sanitized_value,
             metadata |-> sanitize_transaction_metadata(metadata)]

----------------------------------------------------------------------------
(* webhook_validator.py *)

\* hmac.new(key, payload, sha256).hexdigest(): one digest per (key, payload)
HmacSha256(key, payload) == <<key, payload.orderId, payload.status>>

\* mutant: a present signature is accepted without being compared
verify_oxapay_NoCompare(payload, signature, api_key) ==
    IF signature = <<>> \/ api_key = "" THEN FALSE ELSE TRUE

\* a request body that is not text: payload.encode() raises on it
NonePayload == [type |-> "NoneType"]

Encodable(payload) == "orderId" \in DOMAIN payload

\* signature is <<>> when the header is missing or empty; an exception while
\* the digest is computed is caught and answered with False
verify_oxapay(payload, signature, api_key) ==
    IF signature = <<>> \/ api_key = "" THEN FALSE
    ELSE IF ~Encodable(payload) THEN FALSE
    ELSE HmacSha256(api_key, payload) = signature

\* hmac.new(key, payload, sha512).hexdigest()
HmacSha512(key, payload) == <<"sha512", key, payload.orderId, payload.status>>

verify_nowpayments(payload, signature, ipn_secret) ==
    IF signature = <<>> \/ ipn_secret = "" THEN FALSE
    ELSE IF ~Encodable(payload) THEN FALSE
    ELSE HmacSha512(ipn_secret, payload) = signature

\* the outcome of a call: a returned boolean, or an exception that leaves it
Returned(b) == [raised |-> FALSE, value |-> b]

Raised == [raised |-> TRUE, value |-> FALSE]

\* the keys of a Cryptomus body in the order sort_keys=True writes them
CryptomusKeys == <<"amount", "order_id", "status">>

RECURSIVE SortedFrom(_, _)
\* the items whose key is CryptomusKeys[n] or later, in key order
SortedFrom(items, n) ==
    IF n > Len(CryptomusKeys) THEN <<>>
    ELSE SelectSeq(items, LAMBDA it : it[1] = CryptomusKeys[n])
             \o SortedFrom(items, n + 1)

\* json.dumps(items, separators=(',', ':')): the text lists the items in the
\* order of the dict, or by key with sort_keys=True
json_dumps(items, sort_keys) ==
    IF sort_keys THEN SortedFrom(items, 1) ELSE items

\* md5(base64(text) + api_key).hexdigest(): one digest per (text, key)
Md5(text, api_key) == <<"md5", text, api_key>>

\* payments.py, Cryptomus._sign_request under config.CRYPTOMUS_API_KEY: the
\* text is written in the order of the dict, without sort_keys
_sign_request(items, api_key) ==
    IF api_key = "" THEN <<>> ELSE Md5(json_dumps(items, FALSE), api_key)

\* data.get('sign') is evaluated before the try: on a body that is not a dict
\* the AttributeError leaves the function; compare_digest on a sign that is
\* not a string raises inside the try
verify_cryptomus(data, api_key) ==
    IF api_key = "" THEN Returned(FALSE)
    ELSE IF data.type # "dict" THEN Raised
    ELSE IF ~data.sign.has \/ data.sign.value = <<>> THEN Returned(FALSE)
    ELSE IF data.sign.type # "str" THEN Returned(FALSE)
    ELSE Returned(Md5(json_dumps(data.items, TRUE), api_key) = data.sign.value)

----------------------------------------------------------------------------
(* bridge.py *)

\* a put into a one-slot holder: the item replaces what was queued
send_payment_notification_Overwrite(q, order_id, user_id, message, admin_id) ==
    <<[type |-> "payment_notification", order_id |-> order_id,
       user_id |-> user_id, message |-> message, admin_id |-> admin_id]>>

send_payment_notification(q, order_id, user_id, message, admin_id) ==
    Append(q, [type |-> "payment_notification", order_id |-> order_id,
               user_id |-> user_id, message |-> message, admin_id |-> admin_id])

----------------------------------------------------------------------------
(* Inputs *)

ID_A == <<"a", "b", "1">>

ID_B == <<"a", "b", "2">>

\* "ab 1": not well formed, cleaned to ID_A
ID_SPACED == <<"a", "b", " ", "1">>

\* "a!": cleaned to one character
ID_SHORT == <<"a", "!">>

TxIdInputs == {ID_A, ID_B, ID_SPACED, ID_SHORT}

\* the ids a webhook or a status update names
KnownTxIds == {ID_A, ID_B}

UserIdInputs == {0, 1, 2}

Num(mills) == [kind |-> "num", mills |-> mills, chars |-> <<>>]

Str(chars) == [kind |-> "str", mills |-> 0, chars |-> chars]

\* -5, 0, 10, 10000.01 as numbers; "-5" and "10001" as strings
AmountInputs ==
    {Num(0 - 5000), Num(0), Num(10000), Num(MaxAmountMills + 10),
     Str(<<"-", "5">>), Str(<<"1", "0", "0", "0", "1">>)}

MethodInputs == {"OxaPay", "oxapay", "Stripe"}

MetadataInputs == {<<"m", "<">>}

StatusInputs == {"completed", "failed", "pending"}

DaysInputs == {0, 1}

\* config.OXAPAY_API_KEY, and a key the sender of a forged callback uses
OXAPAY_API_KEY == "k1"

OtherKey == "k2"

Payload(order_id) == [orderId |-> order_id, status |-> "Paid"]

\* create_transaction requests: a valid request with one argument varied at a time
Request(id, u, a, m, md) ==
    [tx_id |-> id, user_id |-> u, amount |-> a, method |-> m, metadata |-> md]

CreateInputs ==
    LET md == CHOOSE x \in MetadataInputs : TRUE
    IN {Request(id, 1, Num(10000), "OxaPay", md) : id \in TxIdInputs}
       \cup {Request(ID_A, u, Num(10000), "OxaPay", md) : u \in UserIdInputs}
       \cup {Request(ID_A, 1, a, "OxaPay", md) : a \in AmountInputs}
       \cup {Request(ID_A, 1, Num(10000), m, md) : m \in MethodInputs}

SignatureInputs(payload) ==
    {<<>>, HmacSha256(OXAPAY_API_KEY, payload), HmacSha256(OtherKey, payload)}

----------------------------------------------------------------------------
(* Tables *)

Unset == <<>>

\* join_date and created_at are written once by the INSERT and never again: the
\* rows carry the columns a later statement writes or reads
NewUserRow(now) == [last_interaction |-> now, is_vip |-> FALSE, updated_at |-> now]

\* the row the INSERT of create_transaction writes
NewTransactionRow(data, now) ==
    [user_id |-> data.user_id, amount |-> data.amount, method |-> data.method,
     metadata |-> data.metadata, status |-> "pending", timestamp |-> now,
     processed_at |-> Unset]

\* the row as <<row>>, <<>> when there is none
RowOf(table, key) == IF key \in DOMAIN table THEN <<table[key]>> ELSE <<>>

----------------------------------------------------------------------------
(* Workers *)

Idle ==
    [pc |-> "idle", op |-> "", tx_id |-> <<>>, user_id |-> 0, status |-> "", now |-> 0,
     row_count |-> 0, existing |-> FALSE, owner |-> <<>>, result |-> FALSE,
     \* history, not read by the code: the transaction's row and whether its owner
     \* had a row when the call began, the status the call's UPDATE found, whether
     \* the call wrote a row, whether it set is_vip, whether a statement of it raised,
     \* whether the callback's signature was not made with the configured key
     tx0 |-> <<>>, owner0 |-> FALSE, before |-> <<>>, wrote |-> FALSE,
     vip_written |-> FALSE, faulted |-> FALSE, forged |-> FALSE]

\* w begins a call: datetime.now() is read, the clock ticks
Begin(w) ==
    /\ w \in threads
    /\ wk[w].pc = "idle"
    /\ clock < (IF threads = Workers THEN MaxConcurrentCalls ELSE MaxCalls)
    /\ clock' = clock + 1

Call(op, key) ==
    [Idle EXCEPT !.op = op, !.tx_id = key, !.now = clock + 1,
                 !.tx0 = RowOf(transactions, key),
                 !.owner0 = (key \in DOMAIN transactions
                             /\ transactions[key].user_id \in DOMAIN users)]

\* a step of a ledger call: the gateway client and the bridge consumer are not
\* involved
Step(w, rec) ==
    /\ wk' = [wk EXCEPT ![w] = rec]
    /\ UNCHANGED <<gw, bridge, pool, fn>>

Ret(r, res) == [r EXCEPT !.pc = "ret", !.result = res]

CanFail == faults < MaxFaults

\* A storage statement raises (locked database, I/O error): the except clause of
\* the running function returns False; what earlier statements committed stays.
Raise(r) == [r EXCEPT !.faulted = TRUE]

\* payments.py before a call, with the credentials env that are configured; a
\* call leaves nothing behind for the next one
NoResult == [kind |-> "none"]

GatewayIdle(env) ==
    [env |-> env, pc |-> "idle", entry |-> "", method |-> "", amount |-> 0,
     outcomes |-> <<>>, waits |-> <<>>, requests |-> 0, result |-> NoResult]

\* bridge.py before bridge_task is started. data is the item the consumer has
\* taken and is handling, sent the messages the bot has sent. History: puts
\* and put_ok (the calls of send_payment_notification made and whether all
\* returned True), putlog (the items put, in order), put_busy (a put was made
\* into a queue that held an item while the consumer was inside a send),
\* handled (the items handed to _handle_payment_notification, in order)
BridgeIdle ==
    [running |-> FALSE, pc |-> "sleep", data |-> <<>>, sent |-> <<>>,
     puts |-> 0, put_ok |-> TRUE, putlog |-> <<>>, put_busy |-> FALSE, handled |-> <<>>]

\* database.py at import: _connection_pool = {} (a thread without an entry has
\* an empty sub-pool); no connection is open. held is each worker's open
\* get_connection scopes, innermost last; opened counts sqlite3.connect calls;
\* dirty is the connections with an open transaction (writes not committed);
\* exit is how the last scope was left: "return", or the class of the exception
\* that went on to the caller; committed counts the transactions committed
PoolEmpty ==
    [idle |-> [w \in Workers |-> <<>>], held |-> [w \in Workers |-> <<>>],
     closed |-> {}, opened |-> 0, dirty |-> {}, exit |-> "none", committed |-> 0]

\* no validator call made yet
NoCall == [op |-> "none"]

\* The database file is new or was made earlier: init_db creates the tables only
\* IF NOT EXISTS, so an older transactions table keeps its columns; the table
\* init_db creates has no updated_at column.
InitWith(t) ==
    /\ threads = t
    /\ schema_updated_at \in BOOLEAN
    /\ users = <<>>
    /\ transactions = <<>>
    /\ wk = [w \in Workers |-> Idle]
    /\ clock = 0
    /\ faults = 0
    /\ sync_queue = <<>>
    /\ gw = GatewayIdle({})
    /\ bridge = BridgeIdle
    /\ pool = PoolEmpty
    /\ fn = NoCall

MainThread == {"w1"}

Init == InitWith(MainThread)

InitConcurrent == InitWith(Workers)

----------------------------------------------------------------------------
(* database.py: add_user *)

CallAddUser(w, u) ==
    /\ Begin(w)
    /\ Step(w, [Call("add_user", <<>>) EXCEPT !.pc = "au_select", !.user_id = u])
    /\ UNCHANGED <<threads, schema_updated_at, users, transactions, faults, sync_queue>>

\* SELECT telegram_id FROM users WHERE telegram_id = ?
AddUserSelect(w) ==
    /\ wk[w].pc = "au_select"
    /\ Step(w, [wk[w] EXCEPT !.pc = "au_write", !.existing = wk[w].user_id \in DOMAIN users])
    /\ UNCHANGED <<threads, schema_updated_at, users, transactions, clock, faults, sync_queue>>

\* add_user with INSERT OR REPLACE in place of the UPDATE of an existing row
AddUserWrite_Replace(w) ==
    LET r == wk[w]
        u == r.user_id
    IN /\ r.pc = "au_write"
       /\ IF ~r.existing
          THEN IF u \in DOMAIN users
               THEN /\ Step(w, Ret(r, FALSE))
                    /\ UNCHANGED users
               ELSE /\ users' = (u :> NewUserRow(r.now)) @@ users
                    /\ Step(w, Ret([r EXCEPT !.wrote = TRUE], TRUE))
          ELSE /\ users' = [users EXCEPT ![u] = NewUserRow(r.now)]
               /\ Step(w, Ret([r EXCEPT !.wrote = TRUE], TRUE))
       /\ UNCHANGED <<threads, schema_updated_at, transactions, clock, faults, sync_queue>>

\* the INSERT (which the primary key refuses when the row has appeared meanwhile)
\* or the UPDATE of last_interaction
AddUserWrite(w) ==
    LET r == wk[w]
        u == r.user_id
    IN /\ r.pc = "au_write"
       /\ IF ~r.existing
          THEN IF u \in DOMAIN users
               THEN /\ Step(w, Ret(r, FALSE))
                    /\ UNCHANGED users
               ELSE /\ users' = (u :> NewUserRow(r.now)) @@ users
                    /\ Step(w, Ret([r EXCEPT !.wrote = TRUE], TRUE))
          ELSE /\ users' = [users EXCEPT ![u].last_interaction = r.now,
                                         ![u].updated_at = r.now]
               /\ Step(w, Ret([r EXCEPT !.wrote = TRUE], TRUE))
       /\ UNCHANGED <<threads, schema_updated_at, transactions, clock, faults, sync_queue>>

----------------------------------------------------------------------------
(* database.py: create_transaction *)

\* create_transaction with INSERT OR REPLACE: an existing id is overwritten
CreateTransaction_Replace(w, tx_id, user_id, amount, method, metadata) ==
    LET validated_data == validate_transaction_input(tx_id, user_id, amount, method, metadata)
        r == Call("create_transaction", validated_data.tx_id)
    IN /\ Begin(w)
       /\ IF ~validated_data.ok
          THEN /\ Step(w, Ret(r, FALSE))
               /\ UNCHANGED <<transactions, faults>>
          ELSE \/ /\ transactions' =
                        (validated_data.tx_id :> NewTransactionRow(validated_data, r.now))
                        @@ transactions
                  /\ Step(w, Ret([r EXCEPT !.wrote = TRUE], TRUE))
                  /\ UNCHANGED faults
               \/ /\ CanFail
                  /\ faults' = faults + 1
                  /\ Step(w, Ret(Raise(r), FALSE))
                  /\ UNCHANGED transactions
       /\ UNCHANGED <<threads, schema_updated_at, users, sync_queue>>

\* validation, then the INSERT; the primary key refuses an id that exists
CreateTransaction(w, tx_id, user_id, amount, method, metadata) ==
    LET validated_data == validate_transaction_input(tx_id, user_id, amount, method, metadata)
        r == Call("create_transaction", validated_data.tx_id)
    IN /\ Begin(w)
       /\ IF ~validated_data.ok
          THEN /\ Step(w, Ret(r, FALSE))
               /\ UNCHANGED <<transactions, faults>>
          ELSE \/ /\ validated_data.tx_id \in DOMAIN transactions
                  /\ Step(w, Ret(r, FALSE))
                  /\ UNCHANGED <<transactions, faults>>
               \/ /\ validated_data.tx_id \notin DOMAIN transactions
                  /\ transactions' =
                        (validated_data.tx_id :> NewTransactionRow(validated_data, r.now))
                        @@ transactions
                  /\ Step(w, Ret([r EXCEPT !.wrote = TRUE], TRUE))
                  /\ UNCHANGED faults
               \/ /\ CanFail
                  /\ faults' = faults + 1
                  /\ Step(w, Ret(Raise(r), FALSE))
                  /\ UNCHANGED transactions
       /\ UNCHANGED <<threads, schema_updated_at, users, sync_queue>>

----------------------------------------------------------------------------
(* database.py: update_transaction_status *)

CallUpdateTransactionStatus(w, tx_id, status) ==
    /\ Begin(w)
    /\ Step(w, [Call("update_transaction_status", tx_id) EXCEPT
                    !.pc = "uts_update", !.status = status])
    /\ UNCHANGED <<threads, schema_updated_at, users, transactions, faults, sync_queue>>

\* where update_transaction_status hands back: its caller, or the webhook handler
UtsReturn(r, res) ==
    IF r.op = "webhook" /\ res THEN [r EXCEPT !.pc = "wh_notify", !.result = res]
    ELSE Ret(r, res)

\* the row UPDATE transactions SET status = ?, processed_at = ? leaves
UpdatedTransactionRow(row, status, now) ==
    [row EXCEPT !.status = status, !.processed_at = <<now>>]

\* the statement as an INSERT OR REPLACE: a missing row is made
UtsUpdate_Upsert(w) ==
    LET r == [wk[w] EXCEPT !.before = IF wk[w].tx_id \in DOMAIN transactions
                                      THEN <<transactions[wk[w].tx_id].status>> ELSE <<>>]
        t == r.tx_id
    IN /\ r.pc = "uts_update"
       /\ IF ~schema_updated_at
          THEN /\ Step(w, UtsReturn(r, FALSE))
               /\ UNCHANGED transactions
          ELSE /\ transactions' =
                     IF t \in DOMAIN transactions
                     THEN [transactions EXCEPT ![t] = UpdatedTransactionRow(@, r.status, r.now)]
                     ELSE (t :> UpdatedTransactionRow(
                                    NewTransactionRow([user_id |-> 1, amount |-> 0,
                                                       method |-> "", metadata |-> <<>>], r.now),
                                    r.status, r.now)) @@ transactions
               /\ LET r2 == [r EXCEPT !.row_count = 1, !.wrote = TRUE]
                  IN IF r.status = "completed"
                     THEN Step(w, [r2 EXCEPT !.pc = "uts_select"])
                     ELSE Step(w, UtsReturn(r2, TRUE))
       /\ UNCHANGED <<threads, schema_updated_at, users, clock, faults, sync_queue>>

\* UPDATE transactions SET status = ?, processed_at = ?, updated_at = ? WHERE tx_id = ?
\* The statement names a column updated_at: on a table without it the statement
\* raises and the function returns False.
UtsUpdate(w) ==
    LET r == [wk[w] EXCEPT !.before = IF wk[w].tx_id \in DOMAIN transactions
                                      THEN <<transactions[wk[w].tx_id].status>> ELSE <<>>]
        t == r.tx_id
    IN /\ r.pc = "uts_update"
       /\ IF ~schema_updated_at
          THEN /\ Step(w, UtsReturn(r, FALSE))
               /\ UNCHANGED transactions
          ELSE IF t \notin DOMAIN transactions
          THEN /\ Step(w, UtsReturn([r EXCEPT !.row_count = 0], FALSE))
               /\ UNCHANGED transactions
          ELSE /\ transactions' =
                     [transactions EXCEPT ![t] = UpdatedTransactionRow(@, r.status, r.now)]
               /\ LET r2 == [r EXCEPT !.row_count = 1, !.wrote = TRUE]
                  IN IF r.status = "completed"
                     THEN Step(w, [r2 EXCEPT !.pc = "uts_select"])
                     ELSE Step(w, UtsReturn(r2, TRUE))
       /\ UNCHANGED <<threads, schema_updated_at, users, clock, faults, sync_queue>>

\* SELECT user_id FROM transactions WHERE tx_id = ?
UtsSelect(w) ==
    LET r == wk[w]
        t == r.tx_id
    IN /\ r.pc = "uts_select"
       /\ IF t \in DOMAIN transactions
          THEN Step(w, [r EXCEPT !.pc = "uts_vip", !.owner = <<transactions[t].user_id>>])
          ELSE Step(w, UtsReturn(r, TRUE))
       /\ UNCHANGED <<threads, schema_updated_at, users, transactions, clock, faults, sync_queue>>

\* UPDATE users SET is_vip = 1, updated_at = ? WHERE telegram_id = ?
UtsVip(w) ==
    LET r == wk[w]
        u == r.owner[1]
    IN /\ r.pc = "uts_vip"
       /\ IF u \in DOMAIN users
          THEN /\ users' = [users EXCEPT ![u].is_vip = TRUE, ![u].updated_at = r.now]
               /\ Step(w, UtsReturn([r EXCEPT !.vip_written = TRUE], TRUE))
          ELSE /\ UNCHANGED users
               /\ Step(w, UtsReturn(r, TRUE))
       /\ UNCHANGED <<threads, schema_updated_at, transactions, clock, faults, sync_queue>>

----------------------------------------------------------------------------
(* database.py: cleanup_old_sessions *)

\* cleanup_old_sessions without "AND is_vip = 0" in the WHERE clause
Cleanup_IgnoreVip(w, days) ==
    LET r == Call("cleanup_old_sessions", <<>>)
        cutoff_date == r.now - days
        hit == {u \in DOMAIN users : users[u].last_interaction < cutoff_date}
    IN /\ Begin(w)
       /\ \/ /\ users' = [u \in DOMAIN users |->
                            IF u \in hit
                            THEN [users[u] EXCEPT !.last_interaction = cutoff_date,
                                                  !.updated_at = r.now]
                            ELSE users[u]]
             /\ Step(w, Ret([r EXCEPT !.row_count = Cardinality(hit), !.wrote = hit # {}],
                            TRUE))
             /\ UNCHANGED faults
          \/ /\ CanFail
             /\ faults' = faults + 1
             /\ Step(w, Ret(Raise(r), FALSE))
             /\ UNCHANGED users
       /\ UNCHANGED <<threads, schema_updated_at, transactions, sync_queue>>

\* UPDATE users SET last_interaction = cutoff, updated_at = now
\* WHERE last_interaction < cutoff AND is_vip = 0
Cleanup(w, days) ==
    LET r == Call("cleanup_old_sessions", <<>>)
        cutoff_date == r.now - days
        hit == {u \in DOMAIN users :
                   users[u].last_interaction < cutoff_date /\ ~users[u].is_vip}
    IN /\ Begin(w)
       /\ \/ /\ users' = [u \in DOMAIN users |->
                            IF u \in hit
                            THEN [users[u] EXCEPT !.last_interaction = cutoff_date,
                                                  !.updated_at = r.now]
                            ELSE users[u]]
             /\ Step(w, Ret([r EXCEPT !.row_count = Cardinality(hit), !.wrote = hit # {}],
                            TRUE))
             /\ UNCHANGED faults
          \/ /\ CanFail
             /\ faults' = faults + 1
             /\ Step(w, Ret(Raise(r), FALSE))
             /\ UNCHANGED users
       /\ UNCHANGED <<threads, schema_updated_at, transactions, sync_queue>>

----------------------------------------------------------------------------
(* The handler of an OxaPay callback: it verifies the signature; for a verified *)
(* "Paid" callback it completes the transaction and, when that succeeded,      *)
(* enqueues the notification for the transaction's user.                       *)

Webhook(w, payload, signature) ==
    LET r == [Call("webhook", payload.orderId) EXCEPT
                  !.forged = (signature # HmacSha256(OXAPAY_API_KEY, payload))]
    IN /\ Begin(w)
       /\ IF verify_oxapay(payload, signature, OXAPAY_API_KEY)
          THEN Step(w, [r EXCEPT !.pc = "uts_update", !.status = "completed"])
          ELSE Step(w, Ret(r, FALSE))
       /\ UNCHANGED <<threads, schema_updated_at, users, transactions, faults, sync_queue>>

WebhookNotify(w) ==
    LET r == wk[w]
        t == r.tx_id
    IN /\ r.pc = "wh_notify"
       /\ sync_queue' =
              send_payment_notification(sync_queue, t, transactions[t].user_id, "paid", 0)
       /\ Step(w, Ret(r, TRUE))
       /\ UNCHANGED <<threads, schema_updated_at, users, transactions, clock, faults>>

----------------------------------------------------------------------------
(* Storage errors and returns *)

StoragePcs == {"au_select", "au_write", "uts_update", "uts_select", "uts_vip"}

StorageError(w) ==
    /\ CanFail
    /\ wk[w].pc \in StoragePcs
    /\ faults' = faults + 1
    /\ Step(w, Ret(Raise(wk[w]), FALSE))
    /\ UNCHANGED <<threads, schema_updated_at, users, transactions, clock, sync_queue>>

Return(w) ==
    /\ wk[w].pc = "ret"
    /\ Step(w, Idle)
    /\ UNCHANGED <<threads, schema_updated_at, users, transactions, clock, faults, sync_queue>>

Next ==
    \E w \in Workers :
        \/ \E u \in UserIdInputs \ {0} : CallAddUser(w, u)
        \/ AddUserSelect(w)
        \/ AddUserWrite(w)
        \/ \E q \in CreateInputs :
              CreateTransaction(w, q.tx_id, q.user_id, q.amount, q.method, q.metadata)
        \/ \E id \in KnownTxIds, st \in StatusInputs : CallUpdateTransactionStatus(w, id, st)
        \/ UtsUpdate(w)
        \/ UtsSelect(w)
        \/ UtsVip(w)
        \/ \E d \in DaysInputs : Cleanup(w, d)
        \/ \E id \in KnownTxIds : \E sig \in SignatureInputs(Payload(id)) :
              Webhook(w, Payload(id), sig)
        \/ WebhookNotify(w)
        \/ StorageError(w)
        \/ Return(w)

Spec == Init /\ [][Next]_vars

SpecConcurrent == InitConcurrent /\ [][Next]_vars

\* Two threads running the ledger operations on one user and one transaction id
LedgerRequests ==
    LET md == CHOOSE x \in MetadataInputs : TRUE
    IN {Request(id, 1, Num(10000), "OxaPay", md) : id \in {ID_A, ID_SPACED}}

NextLedger ==
    \E w \in Workers :
        \/ CallAddUser(w, 1)
        \/ AddUserSelect(w)
        \/ AddUserWrite(w)
        \/ \E q \in LedgerRequests :
              CreateTransaction(w, q.tx_id, q.user_id, q.amount, q.method, q.metadata)
        \/ \E st \in {"completed", "failed"} : CallUpdateTransactionStatus(w, ID_A, st)
        \/ UtsUpdate(w)
        \/ UtsSelect(w)
        \/ UtsVip(w)
        \/ Cleanup(w, 0)
        \/ StorageError(w)
        \/ Return(w)

SpecLedger == InitConcurrent /\ [][NextLedger]_vars

\* create_transaction with amounts at the edges of the accepted range: 0.001,
\* 0.004, 0.01, 9999.999 and 10000 as numbers, "0.001" and "0.01" as strings
AmountEdgeInputs ==
    {Num(1), Num(4), Num(10), Num(MaxAmountMills - 1), Num(MaxAmountMills),
     Str(<<"0", ".", "0", "0", "1">>), Str(<<"0", ".", "0", "1">>)}

AmountRequests ==
    LET md == CHOOSE x \in MetadataInputs : TRUE
    IN {Request(id, 1, a, "OxaPay", md) : id \in KnownTxIds, a \in AmountEdgeInputs}

NextAmounts ==
    \E w \in Workers :
        \/ \E q \in AmountRequests :
              CreateTransaction(w, q.tx_id, q.user_id, q.amount, q.method, q.metadata)
        \/ Return(w)

SpecAmounts == Init /\ [][NextAmounts]_vars

----------------------------------------------------------------------------
(* payments.py: the payment gateway client *)

max_retries == 3

\* the backoff with 2 * attempt in place of 2 ** attempt
wait_time_Linear(attempt) == 2 * attempt

\* wait_time = 2 ** attempt
wait_time(attempt) == 2 ^ attempt

\* what load_dotenv can provide, and whether the stripe library can be imported
Configurable ==
    {"OXAPAY_API_KEY", "CRYPTOMUS_API_KEY", "CRYPTOMUS_MERCHANT_ID", "NOWPAYMENTS_API_KEY",
     "STRIPE_SECRET_KEY", "USDT_WALLET_ADDRESS", "stripe"}

EnvInputs == {Configurable, {}} \cup {Configurable \ {c} : c \in Configurable}

USDT_WALLET_ADDRESS == <<"T", "X", "a", "1">>

RETURN_URL_BASE ==
    <<"h", "t", "t", "p", "s", ":", "/", "/", "t", ".", "m", "e", "/", "Y", "o", "u",
        "r", "B", "o", "t", "N", "a", "m", "e">>

TransakApiKey ==
    <<"4", "f", "c", "d", "6", "9", "0", "4", "-", "7", "0", "6", "b", "-", "4", "e",
        "0", "e", "-", "9", "7", "6", "4", "-", "1", "5", "9", "c", "c", "4", "1", "4",
        "2", "6", "4", "6">>

TransakBaseUrl ==
    <<"h", "t", "t", "p", "s", ":", "/", "/", "g", "l", "o", "b", "a", "l", ".", "t",
        "r", "a", "n", "s", "a", "k", ".", "c", "o", "m">>

GatewayMethods == {"OxaPay", "Cryptomus", "NOWPayments", "Stripe"}

MethodArgs == GatewayMethods \cup {"Transak", "transak", ""}

\* amounts in thousandths: -5.0, 0, 10.0
GatewayAmounts == {0 - 5000, 0, 10000}

\* how an attempt of session.request ends: a 2xx response with a JSON body the
\* provider marks accepted or rejected, a 2xx response whose body is not JSON, a
\* response with another status (raise_for_status raises HTTPError), a timeout,
\* a connection failure
Outcomes ==
    {"json_accepted", "json_rejected", "bad_json", "http_error", "timeout",
     "connection_error"}

Link(method) == [kind |-> "link", method |-> method]

Mock(method) == [kind |-> "mock", method |-> method]

RECURSIVE NatStr(_)
\* str(n) of a natural number
NatStr(n) == IF n < 10 THEN <<CHOOSE c \in Digits : DigitVal(c) = n>>
             ELSE NatStr(n \div 10) \o <<CHOOSE c \in Digits : DigitVal(c) = n % 10>>

\* str(amount) of a float with at most one decimal, given in thousandths
FloatStr(mills) ==
    LET a == IF mills < 0 THEN 0 - mills ELSE mills
    IN (IF mills < 0 THEN <<"-">> ELSE <<>>)
       \o NatStr(a \div 1000) \o <<".">> \o NatStr((a % 1000) \div 100)

RECURSIVE QuotePlus(_)
\* urllib.parse.quote_plus on the characters that occur
QuotePlus(s) ==
    IF s = <<>> THEN <<>>
    ELSE (CASE Head(s) = " " -> <<"+">>
            [] Head(s) = ":" -> <<"%", "3", "A">>
            [] Head(s) = "/" -> <<"%", "2", "F">>
            [] OTHER -> <<Head(s)>>) \o QuotePlus(Tail(s))

RECURSIVE urlencode(_)
\* urllib.parse.urlencode of a list of (key, value)
urlencode(params) ==
    IF params = <<>> THEN <<>>
    ELSE QuotePlus(params[1][1]) \o <<"=">> \o QuotePlus(params[1][2])
         \o (IF Len(params) > 1 THEN <<"&">> ELSE <<>>) \o urlencode(Tail(params))

\* the widget parameters without disableWalletAddressForm
TransakParams_NoDisable(wallet, amount) ==
    << << <<"a", "p", "i", "K", "e", "y">>, TransakApiKey>>,
       << <<"d", "e", "f", "a", "u", "l", "t", "C", "r", "y", "p", "t", "o", "C", "u", "r",
        "r", "e", "n", "c", "y">>,
         <<"U", "S", "D", "T">> >>,
       << <<"d", "e", "f", "a", "u", "l", "t", "N", "e", "t", "w", "o", "r", "k">>, <<"t", "r", "o", "n">> >>,
       << <<"d", "e", "f", "a", "u", "l", "t", "F", "i", "a", "t", "A", "m", "o", "u", "n",
        "t">>,
         FloatStr(amount)>>,
       << <<"d", "e", "f", "a", "u", "l", "t", "F", "i", "a", "t", "C", "u", "r", "r", "e",
        "n", "c", "y">>,
         <<"U", "S", "D">> >>,
       << <<"w", "a", "l", "l", "e", "t", "A", "d", "d", "r", "e", "s", "s">>, wallet>>,
       << <<"r", "e", "d", "i", "r", "e", "c", "t", "U", "R", "L">>, RETURN_URL_BASE>>,
       << <<"h", "i", "d", "e", "M", "e", "n", "u">>, <<"t", "r", "u", "e">> >>,
       << <<"e", "x", "c", "h", "a", "n", "g", "e", "S", "c", "r", "e", "e", "n", "T", "i",
        "t", "l", "e">>,
         <<"P", "a", "g", "a", "r", " ", "V", "I", "P", " ", "V", "-", "S", "t", "r", "i",
        "k", "e">> >>,
       << <<"c", "r", "y", "p", "t", "o", "C", "u", "r", "r", "e", "n", "c", "y", "L", "i",
        "s", "t">>,
         <<"U", "S", "D", "T">> >>,
       << <<"n", "e", "t", "w", "o", "r", "k", "s">>, <<"t", "r", "o", "n">> >> >>

\* params of Transak.create_payment_link
TransakParams(wallet, amount) ==
    << << <<"a", "p", "i", "K", "e", "y">>, TransakApiKey>>,
       << <<"d", "e", "f", "a", "u", "l", "t", "C", "r", "y", "p", "t", "o", "C", "u", "r",
        "r", "e", "n", "c", "y">>,
         <<"U", "S", "D", "T">> >>,
       << <<"d", "e", "f", "a", "u", "l", "t", "N", "e", "t", "w", "o", "r", "k">>, <<"t", "r", "o", "n">> >>,
       << <<"d", "e", "f", "a", "u", "l", "t", "F", "i", "a", "t", "A", "m", "o", "u", "n",
        "t">>,
         FloatStr(amount)>>,
       << <<"d", "e", "f", "a", "u", "l", "t", "F", "i", "a", "t", "C", "u", "r", "r", "e",
        "n", "c", "y">>,
         <<"U", "S", "D">> >>,
       << <<"w", "a", "l", "l", "e", "t", "A", "d", "d", "r", "e", "s", "s">>, wallet>>,
       << <<"r", "e", "d", "i", "r", "e", "c", "t", "U", "R", "L">>, RETURN_URL_BASE>>,
       << <<"d", "i", "s", "a", "b", "l", "e", "W", "a", "l", "l", "e", "t", "A", "d", "d",
        "r", "e", "s", "s", "F", "o", "r", "m">>,
         <<"t", "r", "u", "e">> >>,
       << <<"h", "i", "d", "e", "M", "e", "n", "u">>, <<"t", "r", "u", "e">> >>,
       << <<"e", "x", "c", "h", "a", "n", "g", "e", "S", "c", "r", "e", "e", "n", "T", "i",
        "t", "l", "e">>,
         <<"P", "a", "g", "a", "r", " ", "V", "I", "P", " ", "V", "-", "S", "t", "r", "i",
        "k", "e">> >>,
       << <<"c", "r", "y", "p", "t", "o", "C", "u", "r", "r", "e", "n", "c", "y", "L", "i",
        "s", "t">>,
         <<"U", "S", "D", "T">> >>,
       << <<"n", "e", "t", "w", "o", "r", "k", "s">>, <<"t", "r", "o", "n">> >> >>

\* the module global USDT_WALLET_ADDRESS: the configured address, or None
WalletOf(env) ==
    IF "USDT_WALLET_ADDRESS" \in env THEN USDT_WALLET_ADDRESS ELSE <<"N", "o", "n", "e">>

\* Transak.create_payment_link (order_id, a name made from the time, is left out)
create_payment_link(env, amount) ==
    [kind |-> "transak", ok |-> TRUE,
     pay_url |-> TransakBaseUrl \o <<"?">> \o urlencode(TransakParams(WalletOf(env), amount)),
     amount |-> amount]

\* the checks of a provider's create_payment before it calls out: "none" when it
\* returns None, else the call it goes on to make
create_payment_checks(method, env, amount) ==
    CASE method = "OxaPay" ->
            IF "OXAPAY_API_KEY" \notin env THEN "none"
            ELSE IF amount <= 0 THEN "none" ELSE "request"
      [] method = "Cryptomus" ->
            IF "CRYPTOMUS_API_KEY" \notin env \/ "CRYPTOMUS_MERCHANT_ID" \notin env
            THEN "none"
            ELSE IF amount <= 0 THEN "none" ELSE "request"
      [] method = "NOWPayments" ->
            IF "NOWPAYMENTS_API_KEY" \notin env THEN "none"
            ELSE IF amount <= 0 THEN "none" ELSE "request"
      [] method = "Stripe" ->
            IF "stripe" \notin env THEN "none"
            ELSE IF "STRIPE_SECRET_KEY" \notin env THEN "none" ELSE "stripe"

ApiKeyOf(method) ==
    CASE method = "OxaPay" -> "OXAPAY_API_KEY"
      [] method = "Cryptomus" -> "CRYPTOMUS_API_KEY"
      [] method = "NOWPayments" -> "NOWPAYMENTS_API_KEY"
      [] method = "Stripe" -> "STRIPE_SECRET_KEY"

\* generate_payment_link up to the call of gateway.create_payment: the result
\* it returns by itself, or "call" when it goes on to create_payment
generate_payment_link(env, method, amount, order_id, user_id) ==
    IF method = "" \/ amount = 0 \/ order_id = <<>> \/ user_id = 0
    THEN [next |-> "done", result |-> NoResult]
    ELSE IF amount <= 0 THEN [next |-> "done", result |-> NoResult]
    ELSE IF method = "Transak"
         THEN IF "USDT_WALLET_ADDRESS" \notin env
              THEN [next |-> "done", result |-> NoResult]
              ELSE [next |-> "done", result |-> create_payment_link(env, amount)]
    ELSE IF method \notin GatewayMethods THEN [next |-> "done", result |-> NoResult]
    ELSE IF ApiKeyOf(method) \notin env THEN [next |-> "done", result |-> Mock(method)]
    ELSE [next |-> "call", result |-> NoResult]

GatewayCall(entry, method, amount) ==
    [GatewayIdle(gw.env) EXCEPT !.entry = entry, !.method = method, !.amount = amount]

GatewayFrame ==
    UNCHANGED <<threads, schema_updated_at, users, transactions, wk, clock, faults,
                sync_queue, bridge, pool, fn>>

\* gateway.create_payment: its checks, then pc is at the outbound call
EnterCreatePayment(call) ==
    LET next == create_payment_checks(call.method, call.env, call.amount)
    IN IF next = "none" THEN [call EXCEPT !.pc = "done"] ELSE [call EXCEPT !.pc = next]

GeneratePaymentLink(method, amount) ==
    LET call == GatewayCall("generate_payment_link", method, amount)
        r == generate_payment_link(gw.env, method, amount, ID_A, 1)
    IN /\ gw.pc = "idle"
       /\ gw' = IF r.next = "done" THEN [call EXCEPT !.pc = "done", !.result = r.result]
                ELSE EnterCreatePayment(call)
       /\ GatewayFrame

\* a provider's create_payment called directly
CreatePayment(method, amount) ==
    /\ gw.pc = "idle"
    /\ gw' = EnterCreatePayment(GatewayCall("create_payment", method, amount))
    /\ GatewayFrame

\* Transak.create_payment_link called directly
CreatePaymentLink(amount) ==
    /\ gw.pc = "idle"
    /\ gw' = [GatewayCall("create_payment_link", "Transak", amount) EXCEPT
                 !.pc = "done", !.result = create_payment_link(gw.env, amount)]
    /\ GatewayFrame

\* one iteration of the loop of _make_request: the backoff sleep, the request,
\* and what its outcome leads to; create_payment turns the returned response
\* into its result
MakeRequestAttempt(outcome) ==
    LET attempt == Len(gw.outcomes)
        tried == [gw EXCEPT
                     !.waits = IF attempt > 0 THEN Append(@, wait_time(attempt)) ELSE @,
                     !.requests = @ + 1,
                     !.outcomes = Append(@, outcome)]
    IN /\ gw.pc = "request"
       /\ gw' = CASE outcome = "json_accepted" ->
                       [tried EXCEPT !.pc = "done", !.result = Link(gw.method)]
                  [] outcome \in {"json_rejected", "bad_json"} ->
                       [tried EXCEPT !.pc = "done"]
                  [] OTHER ->
                       IF attempt = max_retries THEN [tried EXCEPT !.pc = "done"] ELSE tried
       /\ GatewayFrame

\* stripe.checkout.Session.create: one call to the Stripe API
StripeSessionCreate(ok) ==
    /\ gw.pc = "stripe"
    /\ gw' = [gw EXCEPT !.pc = "done", !.requests = @ + 1,
                        !.result = IF ok THEN Link("Stripe") ELSE NoResult]
    /\ GatewayFrame

InitGateway ==
    /\ threads = {}
    /\ schema_updated_at = FALSE
    /\ users = <<>>
    /\ transactions = <<>>
    /\ wk = [w \in Workers |-> Idle]
    /\ clock = 0
    /\ faults = 0
    /\ sync_queue = <<>>
    /\ gw \in {GatewayIdle(env) : env \in EnvInputs}
    /\ bridge = BridgeIdle
    /\ pool = PoolEmpty
    /\ fn = NoCall

NextGateway ==
    \/ \E m \in MethodArgs, a \in GatewayAmounts : GeneratePaymentLink(m, a)
    \/ \E m \in GatewayMethods, a \in GatewayAmounts : CreatePayment(m, a)
    \/ \E a \in GatewayAmounts : CreatePaymentLink(a)
    \/ \E o \in Outcomes : MakeRequestAttempt(o)
    \/ \E ok \in BOOLEAN : StripeSessionCreate(ok)

SpecGateway == InitGateway /\ [][NextGateway]_vars

----------------------------------------------------------------------------
(* bridge.py: producers and the consumer task *)

\* calls of send_payment_notification in a run
MaxNotifications == 3

\* config.ADMIN_ID
ADMIN_ID == 715520483

\* admin_id arguments: None, or an id
AdminIdInputs == {0, 7}

BridgeFrame ==
    UNCHANGED <<threads, schema_updated_at, users, transactions, wk, clock, faults, gw,
                pool, fn>>

\* the consumer is inside _handle_payment_notification
InHandler == bridge.pc \in {"send_user", "send_admin"}

\* a put into a queue of capacity one: the call waits while an item is queued
SendPaymentNotification_Maxsize1(order_id, user_id, admin_id) ==
    /\ bridge.puts < MaxNotifications
    /\ sync_queue = <<>>
    /\ sync_queue' = send_payment_notification(sync_queue, order_id, user_id, "paid", admin_id)
    /\ bridge' = [bridge EXCEPT !.puts = @ + 1,
                     !.putlog = Append(@, sync_queue'[Len(sync_queue')]),
                     !.put_busy = @ \/ (InHandler /\ sync_queue # <<>>)]
    /\ BridgeFrame

\* a webhook worker (or notify_user_success) calls send_payment_notification:
\* Queue.put on a queue made by queue.Queue() never finds it full, the call
\* returns True
SendPaymentNotification(order_id, user_id, admin_id) ==
    /\ bridge.puts < MaxNotifications
    /\ sync_queue' = send_payment_notification(sync_queue, order_id, user_id, "paid", admin_id)
    /\ bridge' = [bridge EXCEPT !.puts = @ + 1,
                     !.putlog = Append(@, sync_queue'[Len(sync_queue')]),
                     !.put_busy = @ \/ (InHandler /\ sync_queue # <<>>)]
    /\ BridgeFrame

\* the bot starts bridge_task, which enters its loop
BridgeStart ==
    /\ ~bridge.running
    /\ bridge' = [bridge EXCEPT !.running = TRUE, !.pc = "poll"]
    /\ UNCHANGED sync_queue
    /\ BridgeFrame

\* an if in place of the inner while: asyncio.sleep(1) after one item
BridgeSleep_AfterOne ==
    /\ bridge.running
    /\ bridge.pc = "poll"
    /\ bridge' = [bridge EXCEPT !.pc = "sleep"]
    /\ UNCHANGED sync_queue
    /\ BridgeFrame

\* while not _sync_queue.empty() finds the queue empty: await asyncio.sleep(1).
\* (A tick that starts with the queue empty ends in the same sleep.)
BridgeSleep ==
    /\ bridge.running
    /\ bridge.pc = "poll"
    /\ sync_queue = <<>>
    /\ bridge' = [bridge EXCEPT !.pc = "sleep"]
    /\ UNCHANGED sync_queue
    /\ BridgeFrame

\* a get from a queue.LifoQueue: the newest item first
BridgeGet_Lifo ==
    /\ bridge.running
    /\ bridge.pc \in {"sleep", "poll"}
    /\ sync_queue # <<>>
    /\ sync_queue' = SubSeq(sync_queue, 1, Len(sync_queue) - 1)
    /\ bridge' = [bridge EXCEPT
                     !.data = <<sync_queue[Len(sync_queue)]>>,
                     !.handled = Append(@, sync_queue[Len(sync_queue)]),
                     !.pc = IF sync_queue[Len(sync_queue)].type = "payment_notification"
                            THEN "send_user" ELSE "poll"]
    /\ BridgeFrame

\* while not _sync_queue.empty(): data = _sync_queue.get_nowait(), and a
\* payment_notification is handed to _handle_payment_notification; the test is
\* made after an item was handled and when asyncio.sleep(1) is over
BridgeGet ==
    /\ bridge.running
    /\ bridge.pc \in {"sleep", "poll"}
    /\ sync_queue # <<>>
    /\ sync_queue' = Tail(sync_queue)
    /\ bridge' = [bridge EXCEPT
                     !.data = <<Head(sync_queue)>>,
                     !.handled = Append(@, Head(sync_queue)),
                     !.pc = IF Head(sync_queue).type = "payment_notification"
                            THEN "send_user" ELSE "poll"]
    /\ BridgeFrame

\* a handler without the try: the exception of a send ends bridge_task
BridgeSendUser_StopOnFailure(ok) ==
    LET data == bridge.data[1]
    IN /\ bridge.pc = "send_user"
       /\ bridge' = IF ok
                    THEN [bridge EXCEPT !.pc = "send_admin",
                             !.sent = Append(@, <<data.user_id, data.order_id>>)]
                    ELSE [bridge EXCEPT !.pc = "sleep", !.data = <<>>, !.running = FALSE]
       /\ UNCHANGED sync_queue
       /\ BridgeFrame

\* _handle_payment_notification: bot.send_message to the user; when it raises,
\* the except clause logs and the handler is over
BridgeSendUser(ok) ==
    LET data == bridge.data[1]
    IN /\ bridge.pc = "send_user"
       /\ bridge' = IF ok
                    THEN [bridge EXCEPT !.pc = "send_admin",
                             !.sent = Append(@, <<data.user_id, data.order_id>>)]
                    ELSE [bridge EXCEPT !.pc = "poll", !.data = <<>>]
       /\ UNCHANGED sync_queue
       /\ BridgeFrame

\* the admin recipient of an item: admin_id = data.get('admin_id') or
\* config.ADMIN_ID
AdminOf(data) == IF data.admin_id # 0 THEN data.admin_id ELSE ADMIN_ID

\* _handle_payment_notification: bot.send_message to admin_id or config.ADMIN_ID
BridgeSendAdmin(ok) ==
    LET data == bridge.data[1]
        admin_id == AdminOf(data)
    IN /\ bridge.pc = "send_admin"
       /\ bridge' = [bridge EXCEPT !.pc = "poll", !.data = <<>>,
                        !.sent = IF ok THEN Append(@, <<admin_id, data.order_id>>) ELSE @]
       /\ UNCHANGED sync_queue
       /\ BridgeFrame

InitBridge ==
    /\ threads = {}
    /\ schema_updated_at = FALSE
    /\ users = <<>>
    /\ transactions = <<>>
    /\ wk = [w \in Workers |-> Idle]
    /\ clock = 0
    /\ faults = 0
    /\ sync_queue = <<>>
    /\ gw = GatewayIdle({})
    /\ bridge = BridgeIdle
    /\ pool = PoolEmpty
    /\ fn = NoCall

NextBridge ==
    \/ \E id \in KnownTxIds, a \in AdminIdInputs : SendPaymentNotification(id, 1, a)
    \/ BridgeStart
    \/ BridgeSleep
    \/ BridgeGet
    \/ \E ok \in BOOLEAN : BridgeSendUser(ok)
    \/ \E ok \in BOOLEAN : BridgeSendAdmin(ok)

SpecBridge == InitBridge /\ [][NextBridge]_vars

\* the steps of bridge_task, one coroutine of the bot's event loop
ConsumerStep ==
    \/ BridgeStart
    \/ BridgeSleep
    \/ BridgeGet
    \/ \E ok \in BOOLEAN : BridgeSendUser(ok)
    \/ \E ok \in BOOLEAN : BridgeSendAdmin(ok)

\* the event loop keeps running bridge_task: a sleep ends, a send returns or
\* raises
SpecBridgeFair == SpecBridge /\ WF_vars(ConsumerStep)

----------------------------------------------------------------------------
(* Vocabulary of the properties *)

Terminal == {"completed", "failed", "cancelled", "refunded"}

\* w takes a step
Stepped(w) == wk'[w].pc # wk[w].pc

\* r is a call of update_transaction_status, direct or made by the webhook
\* handler, that has returned; r.result is what it returned
UtsReturned(r) ==
    /\ r.pc = "ret"
    /\ \/ r.op = "update_transaction_status"
       \/ r.op = "webhook" /\ r.status = "completed"

WasPending(r) == r.tx0 # <<>> /\ r.tx0[1].status = "pending"

Notifications(t) ==
    Cardinality({i \in 1..Len(sync_queue) : sync_queue[i].order_id = t})

\* the number an amount argument denotes, in thousandths ("-5" denotes -5)
AmountValueMills(amount) ==
    IF amount.kind = "num" THEN amount.mills
    ELSE IF amount.chars # <<>> /\ Head(amount.chars) = "-"
         THEN 0 - FloatMills(Tail(amount.chars))
         ELSE FloatMills(amount.chars)

OutOfRange(amount) ==
    AmountValueMills(amount) <= 0 \/ AmountValueMills(amount) > MaxAmountMills

WellFormedId(id) ==
    /\ Len(id) >= MinOrderIdLen
    /\ Len(id) <= MaxOrderIdLen
    /\ \A i \in 1..Len(id) : id[i] \in OrderIdChars

SupportedMethods == {valid_methods[i] : i \in 1..Len(valid_methods)}

\* the claim's valid creation inputs
ValidCreation(q) ==
    /\ WellFormedId(q.tx_id)
    /\ q.user_id \in DOMAIN users
    /\ ~OutOfRange(q.amount)
    /\ q.method \in SupportedMethods

\* this step is w beginning a call of op
Starts(w, op) == wk[w].pc = "idle" /\ wk'[w].op = op

\* this step is w calling create_transaction with the arguments q
DoCreate(w, q) ==
    /\ Starts(w, "create_transaction")
    /\ CreateTransaction(w, q.tx_id, q.user_id, q.amount, q.method, q.metadata)

----------------------------------------------------------------------------
(* Properties *)

\* C1: of two successive update_transaction_status(tx, 'completed') calls on an
\* existing transaction with an existing owner, the call that finds it pending
\* sets is_vip, and the call that finds it already completed performs no VIP
\* write and leaves processed_at as the first call set it.
C1_CompletedTwiceUpgradesOnce ==
    \A w \in Workers :
        LET r == wk[w]
        IN (UtsReturned(r) /\ r.status = "completed" /\ ~r.faulted
            /\ r.tx0 # <<>> /\ r.owner0)
           => /\ r.tx0[1].status = "pending" => r.vip_written
              /\ r.tx0[1].status = "completed"
                 => /\ ~r.vip_written
                    /\ transactions[r.tx_id].processed_at = r.tx0[1].processed_at

\* C2: when two workers run update_transaction_status(tx, 'completed') at the
\* same time on the same pending transaction, exactly one returns success and
\* the other has written nothing.
C2_ExactlyOneWorkerCompletes ==
    \A v \in Workers, w \in Workers :
        (v # w /\ UtsReturned(wk[v]) /\ UtsReturned(wk[w])
         /\ wk[v].tx_id = wk[w].tx_id
         /\ wk[v].status = "completed" /\ wk[w].status = "completed"
         /\ WasPending(wk[v]) /\ WasPending(wk[w])
         /\ ~wk[v].faulted /\ ~wk[w].faulted)
        => /\ wk[v].result # wk[w].result
           /\ ~wk[v].result => ~wk[v].wrote
           /\ ~wk[w].result => ~wk[w].wrote

C6_PendingBecomesCompleted ==
    \A w \in Workers :
        LET r == wk[w]
        IN (r.pc = "ret" /\ r.op = "update_transaction_status" /\ r.status = "completed"
            /\ r.before = <<"pending">> /\ ~r.faulted)
           => /\ r.result
              /\ transactions[r.tx_id].status = "completed"
              /\ transactions[r.tx_id].processed_at # Unset
              /\ r.owner0 => users[r.tx0[1].user_id].is_vip

\* C7: a callback whose signature is missing or was made with another secret is
\* rejected at verification, and no step of its handling changes users,
\* transactions or the notification queue.
C7_ForgedWebhookChangesNothing ==
    [][\A w \in Workers :
          /\ (wk'[w].op = "webhook" /\ wk'[w].forged)
             => (wk'[w].pc = "ret" /\ ~wk'[w].result)
          /\ (wk[w].op = "webhook" /\ wk[w].forged /\ Stepped(w))
             => UNCHANGED <<users, transactions, sync_queue>>]_vars

C7_Witness ==
    \E w \in Workers :
        /\ wk[w].op = "webhook" /\ wk[w].forged /\ wk[w].pc = "ret"
        /\ WasPending(wk[w])
        /\ schema_updated_at

\* C8: at most one notification is ever enqueued for a transaction, and a
\* correctly signed callback that found the transaction pending has enqueued it.
C8_ExactlyOneNotification ==
    /\ \A t \in KnownTxIds : Notifications(t) <= 1
    /\ \A w \in Workers :
          LET r == wk[w]
          IN (r.pc = "ret" /\ r.op = "webhook" /\ ~r.forged /\ ~r.faulted
              /\ r.before = <<"pending">>)
             => Notifications(r.tx_id) = 1

C10_OutOfRangeAmountRejected ==
    [][\A w \in Workers, q \in CreateInputs :
          (DoCreate(w, q) /\ OutOfRange(q.amount))
          => (~wk'[w].result /\ transactions' = transactions)]_vars

\* C11: create_transaction with an id that is already in the ledger returns
\* failure and leaves the existing row as it was; of two threads creating the
\* same new id at the same time with valid arguments, exactly one succeeds.
C11_DuplicateIdRefused ==
    [][/\ \A w \in Workers, q \in CreateInputs :
             (DoCreate(w, q) /\ q.tx_id \in DOMAIN transactions)
             => (~wk'[w].result /\ transactions' = transactions)
       /\ \A v \in Workers, w \in Workers :
             (v # w
              /\ wk'[v].pc = "ret" /\ wk'[v].op = "create_transaction"
              /\ wk'[w].pc = "ret" /\ wk'[w].op = "create_transaction"
              /\ wk'[v].tx_id # <<>> /\ wk'[v].tx_id = wk'[w].tx_id
              /\ ~wk'[v].faulted /\ ~wk'[w].faulted
              /\ (wk'[v].tx0 = <<>> \/ wk'[w].tx0 = <<>>))
             => wk'[v].result # wk'[w].result]_vars

C11_Witness ==
    \E v \in Workers, w \in Workers :
        /\ v # w
        /\ wk[v].pc = "ret" /\ wk[v].op = "create_transaction" /\ wk[v].result
        /\ wk[w].pc = "ret" /\ wk[w].op = "create_transaction" /\ ~wk[w].result
        /\ ~wk[w].faulted
        /\ wk[w].tx_id = wk[v].tx_id
        /\ wk[w].tx0 # <<>> /\ transactions[wk[w].tx_id] = wk[w].tx0[1]

\* C12: create_transaction with an id that is not 3 to 64 characters of
\* alphanumerics, '_' and '-' returns failure and writes no row.
C12_MalformedIdWritesNothing ==
    [][\A w \in Workers, q \in CreateInputs :
          (DoCreate(w, q) /\ ~WellFormedId(q.tx_id))
          => (~wk'[w].result /\ transactions' = transactions)]_vars

\* C13: every call of add_user whose statements did not raise returns success,
\* also when two threads call it at the same time for the same new id.
C13_AddUserAlwaysSucceeds ==
    \A w \in Workers :
        (wk[w].pc = "ret" /\ wk[w].op = "add_user" /\ ~wk[w].faulted) => wk[w].result

\* C14: no step deletes a user row or changes is_vip from true to false.
C14_VipMonotonic ==
    [][\A u \in DOMAIN users :
          /\ u \in DOMAIN users'
          /\ users[u].is_vip => users'[u].is_vip]_vars

\* a VIP user's row was written again after the completion that upgraded it
C14_Witness ==
    \E u \in DOMAIN users, t \in DOMAIN transactions :
        /\ users[u].is_vip
        /\ transactions[t].user_id = u
        /\ transactions[t].status = "completed"
        /\ users[u].last_interaction > transactions[t].processed_at[1]

\* C15: cleanup_old_sessions(days) changes no transaction and no row of a VIP
\* user; a user row it changes belonged to a non-VIP user whose last_interaction
\* was before the cutoff, and only last_interaction and updated_at differ.
C15_CleanupFrame ==
    [][\A w \in Workers, d \in DaysInputs :
          (Starts(w, "cleanup_old_sessions") /\ Cleanup(w, d))
          => /\ transactions' = transactions
             /\ DOMAIN users' = DOMAIN users
             /\ \A u \in DOMAIN users :
                   /\ users[u].is_vip => users'[u] = users[u]
                   /\ users'[u] # users[u]
                      => /\ ~users[u].is_vip
                         /\ users[u].last_interaction < clock + 1 - d
                         /\ [users'[u] EXCEPT
                                !.last_interaction = users[u].last_interaction,
                                !.updated_at = users[u].updated_at] = users[u]]_vars

\* cleanup ran while a VIP user's last_interaction was before every cutoff
C15_Witness ==
    \E w \in Workers, u \in DOMAIN users :
        /\ wk[w].pc = "ret" /\ wk[w].op = "cleanup_old_sessions" /\ wk[w].result
        /\ users[u].is_vip
        /\ users[u].last_interaction < wk[w].now - 1

\* the last outcome of the attempts made so far
LastOutcome == IF gw.outcomes = <<>> THEN "" ELSE gw.outcomes[Len(gw.outcomes)]

Transient == {"timeout", "connection_error"}

\* C16: after a response with a non-2xx status _make_request makes no further
\* request: the call is over and its result is the failure.
C16_NoRetryAfterNon2xx ==
    LastOutcome = "http_error" => (gw.pc = "done" /\ gw.result = NoResult)

\* C17: _make_request sleeps before every request but the first, 2, 4 and 8
\* seconds; when every attempt ended in a timeout or connection failure it has
\* made 1 + 3 requests and the result is the failure; a 2xx JSON response ends
\* the call with that response.
C17_RetriesAndBackoff ==
    /\ gw.requests <= 1 + 3
    /\ gw.pc # "stripe" /\ gw.method # "Stripe"
       => gw.waits = SubSeq(<<2, 4, 8>>, 1, Len(gw.outcomes) - 1)
    /\ (gw.pc = "done" /\ gw.outcomes # <<>>
        /\ \A i \in 1..Len(gw.outcomes) : gw.outcomes[i] \in Transient)
       => (gw.requests = 1 + 3 /\ gw.waits = <<2, 4, 8>> /\ gw.result = NoResult)
    /\ LastOutcome \in {"json_accepted", "json_rejected"}
       => /\ gw.pc = "done"
          /\ gw.requests = Len(gw.outcomes)
          /\ LastOutcome = "json_accepted" => gw.result = Link(gw.method)

C17_Witness ==
    /\ gw.pc = "done"
    /\ Len(gw.outcomes) = 1 + 3
    /\ \A i \in 1..Len(gw.outcomes) : gw.outcomes[i] \in Transient
    /\ \E i \in 1..Len(gw.outcomes) : gw.outcomes[i] = "timeout"
    /\ \E i \in 1..Len(gw.outcomes) : gw.outcomes[i] = "connection_error"

\* the credentials a provider needs
RequiredCredentials(method) ==
    CASE method = "OxaPay" -> {"OXAPAY_API_KEY"}
      [] method = "Cryptomus" -> {"CRYPTOMUS_API_KEY", "CRYPTOMUS_MERCHANT_ID"}
      [] method = "NOWPayments" -> {"NOWPAYMENTS_API_KEY"}
      [] method = "Stripe" -> {"STRIPE_SECRET_KEY"}
      [] method = "Transak" -> {"USDT_WALLET_ADDRESS"}
      [] OTHER -> {}

\* C18: a call of create_payment or generate_payment_link with amount <= 0, or
\* for a provider whose credentials are not all configured, makes no outbound
\* call and its result is an error or a mock.
C18_NoCallWhenPreconditionFails ==
    (gw.entry \in {"create_payment", "generate_payment_link"}
     /\ (gw.amount <= 0 \/ ~(RequiredCredentials(gw.method) \subseteq gw.env)))
    => /\ gw.requests = 0
       /\ gw.pc = "done"
       /\ gw.result.kind \in {"none", "mock"}

Contains(s, sub) ==
    \E i \in 1..(Len(s) - Len(sub) + 1) : SubSeq(s, i, i + Len(sub) - 1) = sub

\* C19: generate_payment_link for Transak makes no outbound call; a link it
\* returns has the parameters walletAddress=<configured address> and
\* disableWalletAddressForm=true; without a configured address it returns none.
C19_TransakLinkIsLocalAndPinned ==
    (gw.entry = "generate_payment_link" /\ gw.method = "Transak")
    => /\ gw.pc = "done"
       /\ gw.requests = 0
       /\ "USDT_WALLET_ADDRESS" \notin gw.env => gw.result = NoResult
       /\ gw.result # NoResult
          => /\ gw.result.kind = "transak" /\ gw.result.ok
             /\ Contains(gw.result.pay_url,
                         <<"&", "w", "a", "l", "l", "e", "t", "A", "d", "d", "r", "e",
                         "s", "s", "=">>
                         \o USDT_WALLET_ADDRESS \o <<"&">>)
             /\ Contains(gw.result.pay_url,
                         <<"&", "d", "i", "s", "a", "b", "l", "e", "W", "a", "l", "l",
                         "e", "t", "A", "d", "d", "r", "e", "s", "s", "F", "o", "r", "m",
                         "=", "t", "r", "u", "e", "&">>)

C19_Witness ==
    /\ gw.entry = "generate_payment_link" /\ gw.method = "Transak"
    /\ gw.pc = "done"
    /\ gw.result # NoResult

\* the capacity the bounded queue is supposed to have
QueueCapacity == 2

\* C20: the queue never holds more than QueueCapacity intents, and once the
\* producers have made more calls than that with no consumer running, a call
\* of send_payment_notification has returned failure.
C20_QueueBoundedWithBackpressure ==
    /\ Len(sync_queue) <= QueueCapacity
    /\ (~bridge.running /\ bridge.puts > QueueCapacity) => ~bridge.put_ok

\* validator.py validate_status: valid_statuses
valid_statuses == {"pending", "completed", "failed", "cancelled", "refunded"}

C30_StoredAmountPositiveTwoDigits ==
    \A t \in DOMAIN transactions :
        /\ transactions[t].amount > 0
        /\ transactions[t].amount <= MaxAmountMills
        /\ transactions[t].amount % 10 = 0

----------------------------------------------------------------------------
(* database.py: DatabaseManager.get_connection *)

\* a sub-pool keeps at most this many connections
PoolMax == 5

\* get_connection scopes a worker has open at once, and sqlite3.connect calls
\* in a run
MaxScopes == 6

MaxOpened == 7

PoolFrame ==
    UNCHANGED <<threads, schema_updated_at, users, transactions, wk, clock, faults,
                sync_queue, gw, bridge, fn>>

Last(s) == s[Len(s)]

Front(s) == SubSeq(s, 1, Len(s) - 1)

\* the connections in a sequence
Conns(s) == {s[i] : i \in 1..Len(s)}

\* a read of the pooled connection that leaves it in the sub-pool
PoolAcquire_Peek(w) ==
    /\ w \in threads
    /\ Len(pool.held[w]) < MaxScopes
    /\ IF pool.idle[w] # <<>>
       THEN pool' = [pool EXCEPT !.held[w] = Append(@, Last(pool.idle[w]))]
       ELSE /\ pool.opened < MaxOpened
            /\ pool' = [pool EXCEPT !.held[w] = Append(@, pool.opened + 1),
                                    !.opened = @ + 1]
    /\ PoolFrame

\* entering `with get_connection() as conn`: the worker's sub-pool gives its
\* last connection, or sqlite3.connect opens a new one
PoolAcquire(w) ==
    /\ w \in threads
    /\ Len(pool.held[w]) < MaxScopes
    /\ IF pool.idle[w] # <<>>
       THEN pool' = [pool EXCEPT !.held[w] = Append(@, Last(pool.idle[w])),
                                 !.idle[w] = Front(@)]
       ELSE /\ pool.opened < MaxOpened
            /\ pool' = [pool EXCEPT !.held[w] = Append(@, pool.opened + 1),
                                    !.opened = @ + 1]
    /\ PoolFrame

\* a release that always appends
PoolRelease_NoCap(w) ==
    /\ w \in threads
    /\ pool.held[w] # <<>>
    /\ pool' = [pool EXCEPT !.held[w] = Front(@),
                            !.idle[w] = Append(@, Last(pool.held[w]))]
    /\ PoolFrame

\* leaving the scope, by return or by exception (finally): the connection goes
\* back to the worker's sub-pool when that holds fewer than 5, and is closed
\* otherwise
PoolRelease(w) ==
    /\ w \in threads
    /\ pool.held[w] # <<>>
    /\ IF Len(pool.idle[w]) < PoolMax
       THEN pool' = [pool EXCEPT !.held[w] = Front(@),
                                 !.idle[w] = Append(@, Last(pool.held[w]))]
       ELSE pool' = [pool EXCEPT !.held[w] = Front(@),
                                 !.closed = @ \cup {Last(pool.held[w])}]
    /\ PoolFrame

InitPool ==
    /\ threads = Workers
    /\ schema_updated_at = FALSE
    /\ users = <<>>
    /\ transactions = <<>>
    /\ wk = [w \in Workers |-> Idle]
    /\ clock = 0
    /\ faults = 0
    /\ sync_queue = <<>>
    /\ gw = GatewayIdle({})
    /\ bridge = BridgeIdle
    /\ pool = PoolEmpty
    /\ fn = NoCall

NextPool ==
    \/ \E w \in Workers : PoolAcquire(w)
    \/ \E w \in Workers : PoolRelease(w)

SpecPool == InitPool /\ [][NextPool]_vars

\* the connections in some sub-pool, and the connections in some open scope
Pooled(p) == UNION {Conns(p.idle[w]) : w \in Workers}

CheckedOut(p) == UNION {Conns(p.held[w]) : w \in Workers}

\* no connection is in a sequence twice
NoRepeat(s) == \A i, j \in 1..Len(s) : s[i] = s[j] => i = j

\* C25: a worker's sub-pool never holds more than 5 connections, and a release
\* appends the connection to the worker's own sub-pool when that holds fewer
\* than 5 and closes it otherwise.
C25_SubPoolAtMostFive ==
    [][\A w \in Workers :
           /\ Len(pool'.idle[w]) <= PoolMax
           /\ Len(pool'.held[w]) < Len(pool.held[w])
                  => IF Len(pool.idle[w]) < PoolMax
                     THEN /\ pool'.idle[w] = Append(pool.idle[w], Last(pool.held[w]))
                          /\ pool'.closed = pool.closed
                     ELSE /\ pool'.idle[w] = pool.idle[w]
                          /\ pool'.closed = pool.closed \cup {Last(pool.held[w])}]_vars

\* a worker has released a connection into its full sub-pool: the sub-pool
\* still holds 5 and the connection is closed
C25_Witness ==
    \E w \in Workers :
        /\ Len(pool.idle[w]) = PoolMax
        /\ pool.closed # {}
        /\ pool.closed \cap Conns(pool.idle[w]) = {}

\* C26: no connection is in the open scopes of two workers, a connection in
\* an open scope is in no sub-pool, no connection is twice in the sub-pools, a
\* closed connection is in no sub-pool, and a worker that enters a scope gets
\* the last connection of its own sub-pool or one that did not exist before.
C26_ConnectionsNotShared ==
    [][/\ \A w1, w2 \in Workers :
              w1 # w2 => /\ Conns(pool'.held[w1]) \cap Conns(pool'.held[w2]) = {}
                         /\ Conns(pool'.idle[w1]) \cap Conns(pool'.idle[w2]) = {}
       /\ \A w \in Workers : NoRepeat(pool'.idle[w]) /\ NoRepeat(pool'.held[w])
       /\ CheckedOut(pool') \cap Pooled(pool') = {}
       /\ pool'.closed \cap Pooled(pool') = {}
       /\ \A w \in Workers :
              Len(pool'.held[w]) > Len(pool.held[w])
                  => \/ /\ pool.idle[w] # <<>>
                        /\ Last(pool'.held[w]) = Last(pool.idle[w])
                     \/ /\ pool.idle[w] = <<>>
                        /\ Last(pool'.held[w]) \notin
                               Pooled(pool) \cup CheckedOut(pool) \cup pool.closed]_vars

\* both workers are inside a scope; one of them filled its sub-pool, had a
\* connection closed, and now works on a connection taken back from the
\* sub-pool
C26_Witness ==
    /\ pool.closed # {}
    /\ \A w \in Workers : pool.held[w] # <<>>
    /\ \E w \in Workers : pool.idle[w] # <<>> /\ Len(pool.idle[w]) < PoolMax

----------------------------------------------------------------------------
(* validator.py and webhook_validator.py: calls of the sanitizer and of the
   webhook shape check *)

\* lengths of the metadata strings
MaxMetadataChars == 4

MetadataChars == {"a", " ", "<"}

RECURSIVE StringsUpTo(_, _)
\* the strings over an alphabet with at most n characters
StringsUpTo(chars, n) ==
    IF n = 0 THEN {<<>>}
    ELSE LET shorter == StringsUpTo(chars, n - 1)
         IN shorter \cup {Append(t, c) : t \in shorter, c \in chars}

MetadataStrings == StringsUpTo(MetadataChars, MaxMetadataChars)

id_fields == {"order_id", "orderId", "trackId", "id"}

\* keys of a payload: the identifier fields and one other
PayloadKeys == id_fields \cup {"status"}

\* a webhook body after request.get_json(): a dict with some keys, a list with
\* some elements, or None
WebhookDataInputs ==
    {[type |-> t, keys |-> k] : t \in {"dict", "list"}, k \in SUBSET PayloadKeys}
        \cup {[type |-> "NoneType", keys |-> {}]}

\* `not data` of a dict, a list or None
Falsy(data) == data.keys = {}

\* the check without isinstance(data, dict)
validate_webhook_data_NoTypeCheck(data) ==
    IF Falsy(data) THEN FALSE
    ELSE \E field \in id_fields : field \in data.keys

validate_webhook_data(data) ==
    IF Falsy(data) \/ data.type # "dict" THEN FALSE
    ELSE \E field \in id_fields : field \in data.keys

ValidatorFrame ==
    UNCHANGED <<threads, schema_updated_at, users, transactions, wk, clock, faults,
                sync_queue, gw, bridge, pool>>

\* TransactionValidator.sanitize_transaction_metadata(metadata) is called
CallSanitizeTransactionMetadata(metadata) ==
    /\ fn.op = "none"
    /\ fn' = [op |-> "sanitize_transaction_metadata", arg |-> metadata,
              out |-> sanitize_transaction_metadata(metadata)]
    /\ ValidatorFrame

\* validate_webhook_data(data) is called
CallValidateWebhookData(data) ==
    /\ fn.op = "none"
    /\ fn' = [op |-> "validate_webhook_data", arg |-> data,
              out |-> validate_webhook_data(data)]
    /\ ValidatorFrame

InitValidators ==
    /\ threads = {}
    /\ schema_updated_at = FALSE
    /\ users = <<>>
    /\ transactions = <<>>
    /\ wk = [w \in Workers |-> Idle]
    /\ clock = 0
    /\ faults = 0
    /\ sync_queue = <<>>
    /\ gw = GatewayIdle({})
    /\ bridge = BridgeIdle
    /\ pool = PoolEmpty
    /\ fn = NoCall

NextValidators ==
    \/ \E m \in MetadataStrings : CallSanitizeTransactionMetadata(m)
    \/ \E d \in WebhookDataInputs : CallValidateWebhookData(d)

SpecValidators == InitValidators /\ [][NextValidators]_vars

\* C27: sanitize_transaction_metadata applied to its own output returns that
\* output: the result of a call is a fixed point of the function.
C27_SanitizeIdempotent ==
    fn.op = "sanitize_transaction_metadata"
        => sanitize_transaction_metadata(fn.out) = fn.out

\* C28: validate_webhook_data accepts exactly the non-empty mappings that have
\* one of the keys order_id, orderId, trackId, id; lists, None, the empty
\* mapping and mappings with other keys only are rejected.
C28_WebhookDataShape ==
    fn.op = "validate_webhook_data"
        => (fn.out <=> /\ fn.arg.type = "dict"
                       /\ fn.arg.keys # {}
                       /\ fn.arg.keys \cap {"order_id", "orderId", "trackId", "id"} # {})

\* a mapping whose only key is id was accepted
C28_Witness ==
    /\ fn.op = "validate_webhook_data"
    /\ fn.arg = [type |-> "dict", keys |-> {"id"}]
    /\ fn.out

----------------------------------------------------------------------------
(* The bridge: producers, queue and consumer *)

\* s is an initial part of t
IsPrefix(s, t) == Len(s) <= Len(t) /\ SubSeq(t, 1, Len(s)) = s

RECURSIVE IsSubseq(_, _)
\* s is t with some elements left out
IsSubseq(s, t) ==
    IF s = <<>> THEN TRUE
    ELSE IF t = <<>> THEN FALSE
    ELSE IF Head(s) = Head(t) THEN IsSubseq(Tail(s), Tail(t))
    ELSE IsSubseq(s, Tail(t))

RECURSIVE BothSends(_)
\* the messages of a sequence of items when no send raises: for each item the
\* one to its user, then the one to its admin recipient
BothSends(items) ==
    IF items = <<>> THEN <<>>
    ELSE << <<Head(items).user_id, Head(items).order_id>>,
            <<AdminOf(Head(items)), Head(items).order_id>> >> \o BothSends(Tail(items))

\* C21: send_payment_notification never blocks its caller: wherever the
\* consumer is (not started, sleeping, polling, sending) and whatever the queue
\* holds, a call with any arguments can complete in one step, and every call
\* made so far has returned True.
C21_SendNeverBlocks ==
    /\ bridge.put_ok
    /\ bridge.puts < MaxNotifications
           => \A id \in KnownTxIds, a \in AdminIdInputs :
                  ENABLED SendPaymentNotification(id, 1, a)

\* a call has completed while the consumer was inside a send and the queue
\* held an item
C21_Witness ==
    /\ bridge.put_busy
    /\ InHandler
    /\ Len(sync_queue) >= 2
    /\ bridge.put_ok

\* C22: no loss and no duplication: at all times the items handed to
\* _handle_payment_notification followed by the items still queued are exactly
\* the items put, each once; and under a fairly scheduled consumer the n-th
\* put is eventually followed by the n-th hand-over.
C22_EachIntentHandledOnce ==
    /\ [](bridge.handled \o sync_queue = bridge.putlog)
    /\ \A n \in 1..MaxNotifications :
           (bridge.puts >= n) ~> (Len(bridge.handled) >= n)

\* every put of the run has been handed over, the last ones put while the
\* consumer was busy
C22_Witness ==
    /\ Len(bridge.handled) = MaxNotifications
    /\ bridge.handled = bridge.putlog
    /\ bridge.put_busy

\* C23 as stated: a tick ends (the consumer goes to sleep) only with the queue
\* empty, and the handler of an item ends only after the admin send, which
\* follows the user send, has been dispatched.
C23_TwoSendsPerItem ==
    [][/\ (bridge.pc = "poll" /\ bridge'.pc = "sleep") => sync_queue = <<>>
       /\ (InHandler /\ bridge'.pc = "poll") => bridge.pc = "send_admin"]_vars

\* C23: a tick ends only with the queue empty; an item taken goes to the user
\* send first; the user send either adds the user's message and is followed
\* by the admin send, or raises and ends the handler with no admin send; the
\* admin send goes to the item's admin_id, or to ADMIN_ID when it has none.
C23_UserSendThenAdminSend ==
    [][/\ (bridge.pc = "poll" /\ bridge'.pc = "sleep") => sync_queue = <<>>
       /\ bridge'.handled # bridge.handled
              => /\ bridge'.pc = "send_user"
                 /\ bridge'.data = <<Head(sync_queue)>>
                 /\ bridge'.sent = bridge.sent
       /\ (bridge.pc = "send_user" /\ bridge'.pc # bridge.pc)
              => \/ /\ bridge'.pc = "send_admin"
                    /\ bridge'.data = bridge.data
                    /\ bridge'.sent = Append(bridge.sent, <<bridge.data[1].user_id,
                                                            bridge.data[1].order_id>>)
                 \/ /\ bridge'.pc = "poll"
                    /\ bridge'.sent = bridge.sent
       /\ (bridge.pc = "send_admin" /\ bridge'.pc # bridge.pc)
              => /\ bridge'.pc = "poll"
                 /\ bridge'.sent \in
                        {bridge.sent,
                         Append(bridge.sent,
                                <<IF bridge.data[1].admin_id # 0
                                  THEN bridge.data[1].admin_id ELSE ADMIN_ID,
                                  bridge.data[1].order_id>>)}]_vars

\* two items were drained and the consumer sleeps: the first had no admin_id
\* and its admin message went to ADMIN_ID, the second named its admin
C23_Witness ==
    /\ bridge.pc = "sleep"
    /\ Len(bridge.handled) >= 2
    /\ Len(bridge.sent) = 4
    /\ bridge.sent[1][1] = 1
    /\ bridge.sent[2][1] = ADMIN_ID
    /\ bridge.sent[4][1] = 7

\* C24: the consumer handles one item at a time and in the order of the puts:
\* no item is taken while the handler of another runs, the items handed over
\* are an initial part of the items put, and the messages sent are, in order,
\* among the messages of the items handed over.
C24_SequentialFifo ==
    [][/\ InHandler => bridge'.handled = bridge.handled
       /\ IsPrefix(bridge'.handled, bridge'.putlog)
       /\ InHandler' => bridge'.data = <<bridge'.handled[Len(bridge'.handled)]>>
       /\ IsSubseq(bridge'.sent, BothSends(bridge'.handled))]_vars

\* two different items were put before the first was taken, and both have
\* been handled, in that order
C24_Witness ==
    /\ Len(bridge.handled) >= 2
    /\ bridge.handled[1] # bridge.handled[2]
    /\ ~bridge.put_busy
    /\ Len(bridge.sent) = 4
    /\ bridge.sent[1][2] = bridge.handled[1].order_id
    /\ bridge.sent[3][2] = bridge.handled[2].order_id

----------------------------------------------------------------------------
(* The ledger: references, timestamps, missing rows *)

\* C31: every transaction's user_id is the telegram_id of a user row.
C31_TransactionUserExists ==
    \A t \in DOMAIN transactions : transactions[t].user_id \in DOMAIN users

C37_MissingTransactionChangesNothing ==
    [][\A w \in Workers :
           (wk[w].pc = "uts_update" /\ wk[w].tx_id \notin DOMAIN transactions
                /\ wk'[w] # wk[w])
               => /\ transactions' = transactions
                  /\ users' = users
                  /\ wk'[w].pc = "ret"
                  /\ ~wk'[w].result]_vars

\* update_transaction_status(id, 'completed') has returned False for an id
\* with no row, on a table that has the updated_at column, with a user present
C37_Witness ==
    \E w \in Workers :
        /\ schema_updated_at
        /\ wk[w].op = "update_transaction_status"
        /\ wk[w].pc = "ret"
        /\ wk[w].status = "completed"
        /\ wk[w].row_count = 0
        /\ ~wk[w].faulted
        /\ ~wk[w].result
        /\ wk[w].tx_id \notin DOMAIN transactions
        /\ 1 \in DOMAIN users
        /\ ~users[1].is_vip

----------------------------------------------------------------------------
(* The bridge: send failures *)

\* a send has raised for an item handled before the one in the handler now:
\* fewer messages were sent than two for each item whose handler is over, plus
\* one when the user send of the present item is over
SendHasFailed ==
    Len(bridge.sent) < 2 * Len(bridge.handled)
                           - (CASE bridge.pc = "send_user" -> 2
                                [] bridge.pc = "send_admin" -> 1
                                [] OTHER -> 0)

\* a send raises, or the admin send returns: the handler is over
HandlerEnds == InHandler /\ bridge'.pc = "poll"

\* C33 as stated: the end of a handler re-enqueues nothing and leaves the
\* consumer running, and once a send has raised, the handler of every other
\* item ends only after its admin send was attempted.
C33_FailureStillBothSendsForOthers ==
    [][HandlerEnds
           => /\ sync_queue' = sync_queue
              /\ bridge'.putlog = bridge.putlog
              /\ bridge'.running
              /\ bridge'.data = <<>>
              /\ SendHasFailed => bridge.pc = "send_admin"]_vars

\* C33: a send that raises ends the handler of its item only: nothing is
\* re-enqueued, the item is not kept, bridge_task keeps running; and after a
\* send has raised every item put is still handed to the handler, whose user
\* send is attempted and, unless that raises, whose admin send is attempted.
C33_FailureDropsItemOnly ==
    /\ [][HandlerEnds
              => /\ sync_queue' = sync_queue
                 /\ bridge'.putlog = bridge.putlog
                 /\ bridge'.running
                 /\ bridge'.data = <<>>]_vars
    /\ [][(bridge.pc = "send_user" /\ bridge'.pc # "send_user")
              => \/ bridge'.pc = "send_admin" /\ Len(bridge'.sent) = Len(bridge.sent) + 1
                 \/ bridge'.pc = "poll" /\ bridge'.sent = bridge.sent]_vars
    /\ \A n \in 1..MaxNotifications :
           (SendHasFailed /\ bridge.running /\ bridge.puts >= n)
               ~> (Len(bridge.handled) >= n /\ ~InHandler)

\* the user send of the first item raised; the second item, another order,
\* was handled after it and both of its messages were sent
C33_Witness ==
    /\ bridge.running
    /\ ~InHandler
    /\ Len(bridge.handled) = 2
    /\ bridge.handled[1].order_id # bridge.handled[2].order_id
    /\ bridge.sent = BothSends(<<bridge.handled[2]>>)

----------------------------------------------------------------------------
(* payments.py and the ledger: methods and order references *)

\* C34: every method for which generate_payment_link has returned a result
\* is a method validate_payment_method accepts, so create_transaction takes it.
C34_LinkMethodsAcceptedByLedger ==
    (gw.entry = "generate_payment_link" /\ gw.pc = "done" /\ gw.result # NoResult)
        => validate_payment_method(gw.method).is_valid

\* int(time.time()) at two calls a second apart
TimeInputs == {1700000000, 1700000001}

LinkMethods == GatewayMethods \cup {"Transak"}

\* the order reference of what generate_payment_link(method, 10.0, order_id, 1)
\* makes: orderId / order_id of the request body, metadata.order_id of the
\* Stripe session, trackId / uuid / id of a mock result, order_id of the
\* Transak result
order_reference(env, method, order_id, now) ==
    CASE method = "Transak" -> <<"t", "r", "a", "n", "s", "a", "k", "_">> \o NatStr(now)
      [] method = "Stripe" /\ "STRIPE_SECRET_KEY" \notin env ->
             <<"m", "o", "c", "k", "_", "s", "e", "s", "s">>
      [] OTHER -> order_id

\* generate_payment_link makes a request or returns a result
Produces(env, method, order_id) ==
    LET r == generate_payment_link(env, method, 10000, order_id, 1)
    IN IF r.next = "call" THEN create_payment_checks(method, env, 10000) # "none"
       ELSE r.result # NoResult

\* generate_payment_link(method, 10.0, order_id, 1) is called at time now
CallGeneratePaymentLink(env, method, order_id, now) ==
    /\ fn.op = "none"
    /\ fn' = [op |-> "generate_payment_link",
              arg |-> [env |-> env, method |-> method, order_id |-> order_id, now |-> now],
              out |-> [produced |-> Produces(env, method, order_id),
                       ref |-> order_reference(env, method, order_id, now)]]
    /\ ValidatorFrame

NextLinks ==
    \E env \in EnvInputs, m \in LinkMethods, id \in KnownTxIds, now \in TimeInputs :
        CallGeneratePaymentLink(env, m, id, now)

SpecLinks == InitValidators /\ [][NextLinks]_vars

\* C35: what generate_payment_link makes for an order carries that order's id
\* as its order reference.
C35_LinkCarriesOrderId ==
    (fn.op = "generate_payment_link" /\ fn.out.produced)
        => fn.out.ref = fn.arg.order_id

----------------------------------------------------------------------------
(* webhook_validator.py: the provider verifiers *)

ApiKeyInputs == {"", OXAPAY_API_KEY, OtherKey}

HmacPayloadInputs == {Payload(ID_A), Payload(ID_B), NonePayload}

\* the signature header of OxaPay: missing, or a digest under either key
Sha256SignatureInputs ==
    {<<>>} \cup {HmacSha256(k, Payload(id)) : k \in {OXAPAY_API_KEY, OtherKey},
                                              id \in KnownTxIds}

Sha512SignatureInputs ==
    {<<>>} \cup {HmacSha512(k, Payload(id)) : k \in {OXAPAY_API_KEY, OtherKey},
                                              id \in KnownTxIds}

CryptomusValue(key) ==
    CASE key = "amount" -> "10"
      [] key = "order_id" -> "o1"
      [] key = "status" -> "paid"

\* the items of a body: some of the keys, in any order
CryptomusItems ==
    LET keys == {CryptomusKeys[i] : i \in 1..Len(CryptomusKeys)}
        orders == {ks \in StringsUpTo(keys, Len(CryptomusKeys)) :
                      \A a, b \in 1..Len(ks) : ks[a] = ks[b] => a = b}
    IN {[i \in 1..Len(ks) |-> <<ks[i], CryptomusValue(ks[i])>>] : ks \in orders}

NoSign == [has |-> FALSE, type |-> "NoneType", value |-> <<>>]

StrSign(v) == [has |-> TRUE, type |-> "str", value |-> v]

\* the sign of a body: absent, "", a number, or a digest of the body written in
\* key order or in the order of the dict
SignInputs(items) ==
    {NoSign, StrSign(<<>>), [has |-> TRUE, type |-> "int", value |-> <<"5">>]}
        \cup {StrSign(Md5(json_dumps(items, sorted), OXAPAY_API_KEY)) :
                  sorted \in BOOLEAN}

\* request.get_json(): a dict with items and maybe a sign, a list, or None
CryptomusDataInputs ==
    UNION {{[type |-> "dict", items |-> it, sign |-> sg] : sg \in SignInputs(it)} :
              it \in CryptomusItems}
        \cup {[type |-> t, items |-> <<>>, sign |-> NoSign] : t \in {"list", "NoneType"}}

CallVerifyOxapay(payload, signature, api_key) ==
    /\ fn.op = "none"
    /\ fn' = [op |-> "verify_oxapay",
              arg |-> [payload |-> payload, signature |-> signature, key |-> api_key],
              out |-> Returned(verify_oxapay(payload, signature, api_key))]
    /\ ValidatorFrame

CallVerifyNowpayments(payload, signature, ipn_secret) ==
    /\ fn.op = "none"
    /\ fn' = [op |-> "verify_nowpayments",
              arg |-> [payload |-> payload, signature |-> signature, key |-> ipn_secret],
              out |-> Returned(verify_nowpayments(payload, signature, ipn_secret))]
    /\ ValidatorFrame

CallVerifyCryptomus(data, api_key) ==
    /\ fn.op = "none"
    /\ fn' = [op |-> "verify_cryptomus", arg |-> [data |-> data, key |-> api_key],
              out |-> verify_cryptomus(data, api_key)]
    /\ ValidatorFrame

\* a body is signed by Cryptomus._sign_request, the sign is added to it, and
\* verify_cryptomus is given the result under the same key; the verifier works
\* on data.copy(), so the dict it was given is the dict the caller still has
CallSignThenVerify(items, api_key) ==
    LET data == [type |-> "dict", items |-> items,
                 sign |-> StrSign(_sign_request(items, api_key))]
    IN /\ fn.op = "none"
       /\ fn' = [op |-> "_sign_request", arg |-> [data |-> data, key |-> api_key],
                 out |-> [verdict |-> verify_cryptomus(data, api_key),
                          data_after |-> data]]
       /\ ValidatorFrame

NextVerifiers ==
    \/ \E it \in CryptomusItems, k \in ApiKeyInputs : CallSignThenVerify(it, k)
    \/ \E p \in HmacPayloadInputs, s \in Sha256SignatureInputs, k \in ApiKeyInputs :
           CallVerifyOxapay(p, s, k)
    \/ \E p \in HmacPayloadInputs, s \in Sha512SignatureInputs, k \in ApiKeyInputs :
           CallVerifyNowpayments(p, s, k)
    \/ \E d \in CryptomusDataInputs, k \in ApiKeyInputs : CallVerifyCryptomus(d, k)

SpecVerifiers == InitValidators /\ [][NextVerifiers]_vars

\* the signature a verifier of the HMAC kind expects, when it can compute one
ExpectedHmac(op, key, payload) ==
    IF op = "verify_oxapay" THEN HmacSha256(key, payload) ELSE HmacSha512(key, payload)

\* C36: each of verify_oxapay, verify_cryptomus and verify_nowpayments returns
\* and never raises; it returns False when the received signature is missing or
\* empty, when the secret is missing or empty, and when the expected signature
\* cannot be computed; it returns True only when the received signature equals
\* the one computed from the payload and the secret.
C36_VerifiersFailClosed ==
    /\ fn.op \in {"verify_oxapay", "verify_nowpayments"} =>
          /\ ~fn.out.raised
          /\ fn.out.value <=>
                /\ fn.arg.signature # <<>>
                /\ fn.arg.key # ""
                /\ Encodable(fn.arg.payload)
                /\ fn.arg.signature = ExpectedHmac(fn.op, fn.arg.key, fn.arg.payload)
    /\ fn.op = "verify_cryptomus" =>
          /\ ~fn.out.raised
          /\ fn.out.value <=>
                /\ fn.arg.key # ""
                /\ fn.arg.data.sign.has
                /\ fn.arg.data.sign.type = "str"
                /\ fn.arg.data.sign.value =
                       Md5(json_dumps(fn.arg.data.items, TRUE), fn.arg.key)

\* C40: for every body d and non-empty key k, d with sign = _sign_request(d)
\* computed under k is accepted by verify_cryptomus under k, whatever the order
\* of d's keys, and verify_cryptomus leaves the dict it is given as it was.
C40_SignVerifyRoundTrip ==
    (fn.op = "_sign_request" /\ fn.arg.key # "")
        => /\ fn.out.verdict = Returned(TRUE)
           /\ fn.out.data_after = fn.arg.data

----------------------------------------------------------------------------
(* validator.py and webhook_validator.py: the two shape checks of a webhook *)

\* a body whose identifier fields, where present, all carry one value
WebhookPayloadInputs ==
    {[type |-> d.type, keys |-> d.keys, value |-> v] :
        d \in WebhookDataInputs, v \in {ID_A, ID_B, ID_SHORT}}

\* InputValidator.validate_webhook_payload: a non-empty dict that has the key
\* order_id with a well-formed value
validate_webhook_payload(data) ==
    IF Falsy(data) \/ data.type # "dict" THEN Invalid
    ELSE IF "order_id" \notin data.keys THEN Invalid
    ELSE IF ~validate_order_id(data.value).is_valid THEN Invalid
    ELSE Valid(data)

CallValidateWebhookPayload(data) ==
    /\ fn.op = "none"
    /\ fn' = [op |-> "validate_webhook_payload", arg |-> data,
              out |-> validate_webhook_payload(data).is_valid]
    /\ ValidatorFrame

NextShapes ==
    \/ \E d \in WebhookPayloadInputs : CallValidateWebhookPayload(d)
    \/ \E d \in WebhookPayloadInputs : CallValidateWebhookData(d)

SpecShapes == InitValidators /\ [][NextShapes]_vars

\* C39: on a body whose identifier value is a well-formed order id, the answer
\* of either shape check is the answer the other one gives on the same body:
\* validate_webhook_payload accepts exactly when validate_webhook_data accepts.
C39_ShapeChecksAgree ==
    (fn.op \in {"validate_webhook_payload", "validate_webhook_data"}
        /\ validate_order_id(fn.arg.value).is_valid)
        => /\ fn.out = validate_webhook_data(fn.arg)
           /\ fn.out = validate_webhook_payload(fn.arg).is_valid

----------------------------------------------------------------------------
(* database.py: the body of a get_connection scope *)

\* what a body can raise: a sqlite3 error or any other Exception, or an
\* exception outside Exception (SystemExit, KeyboardInterrupt)
ExceptionInputs == {"Exception", "BaseException"}

\* commits in a run
MaxCommits == 2

\* cursor.execute of an INSERT, UPDATE or DELETE in the innermost scope: sqlite3
\* opens a transaction on the connection
ScopeExecute(w) ==
    /\ w \in threads
    /\ pool.held[w] # <<>>
    /\ Last(pool.held[w]) \notin pool.dirty
    /\ pool' = [pool EXCEPT !.dirty = @ \cup {Last(pool.held[w])}]
    /\ PoolFrame

\* conn.commit() in the innermost scope
ScopeCommit(w) ==
    /\ w \in threads
    /\ pool.held[w] # <<>>
    /\ Last(pool.held[w]) \in pool.dirty
    /\ pool.committed < MaxCommits
    /\ pool' = [pool EXCEPT !.dirty = @ \ {Last(pool.held[w])},
                            !.committed = @ + 1]
    /\ PoolFrame

\* the body returns: every body of database.py commits what it wrote before it
\* returns; finally releases the connection
ScopeReturn(w) ==
    /\ w \in threads
    /\ pool.held[w] # <<>>
    /\ Last(pool.held[w]) \notin pool.dirty
    /\ IF Len(pool.idle[w]) < PoolMax
       THEN pool' = [pool EXCEPT !.held[w] = Front(@),
                                 !.idle[w] = Append(@, Last(pool.held[w])),
                                 !.exit = "return"]
       ELSE pool' = [pool EXCEPT !.held[w] = Front(@),
                                 !.closed = @ \cup {Last(pool.held[w])},
                                 !.exit = "return"]
    /\ PoolFrame

\* the body raises exc, before or after its statement ran: `except Exception`
\* rolls back and re-raises, an exception outside Exception passes that clause
\* by; finally releases the connection, and close() ends an open transaction
ScopeRaise(w, exc) ==
    /\ w \in threads
    /\ pool.held[w] # <<>>
    /\ LET conn == Last(pool.held[w])
           after_except == IF exc = "Exception" THEN pool.dirty \ {conn}
                           ELSE pool.dirty
       IN IF Len(pool.idle[w]) < PoolMax
          THEN pool' = [pool EXCEPT !.held[w] = Front(@),
                                    !.idle[w] = Append(@, conn),
                                    !.dirty = after_except,
                                    !.exit = exc]
          ELSE pool' = [pool EXCEPT !.held[w] = Front(@),
                                    !.closed = @ \cup {conn},
                                    !.dirty = after_except \ {conn},
                                    !.exit = exc]
    /\ PoolFrame

NextScopes ==
    \/ \E w \in Workers : PoolAcquire(w)
    \/ \E w \in Workers : ScopeExecute(w)
    \/ \E w \in Workers : ScopeCommit(w)
    \/ \E w \in Workers : ScopeReturn(w)
    \/ \E w \in Workers, exc \in ExceptionInputs : ScopeRaise(w, exc)

\* one worker thread: a sub-pool belongs to one thread
InitScopes ==
    /\ threads = MainThread
    /\ schema_updated_at = FALSE
    /\ users = <<>>
    /\ transactions = <<>>
    /\ wk = [w \in Workers |-> Idle]
    /\ clock = 0
    /\ faults = 0
    /\ sync_queue = <<>>
    /\ gw = GatewayIdle({})
    /\ bridge = BridgeIdle
    /\ pool = PoolEmpty
    /\ fn = NoCall

SpecScopes == InitScopes /\ [][NextScopes]_vars

\* C38: when the body of a get_connection scope raises, the uncommitted work
\* of its connection is rolled back and the connection is released to the
\* worker's sub-pool or closed while the exception goes on to the caller: every
\* connection opened is held, pooled or closed, and no connection outside an
\* open scope (one a later acquirer may be handed) carries uncommitted writes.
C38_RaisingScopeRollsBack ==
    /\ 1..pool.opened = CheckedOut(pool) \cup Pooled(pool) \cup pool.closed
    /\ pool.dirty \subseteq CheckedOut(pool)

====
